---- MODULE Spec2Model ----
(***************************************************************************)
(* Model of src/src/kernel.cu: the boids flocking simulation (brute force, *)
(* scattered uniform grid, coherent uniform grid).                         *)
(*                                                                         *)
(* float values are modelled as fixed-point integers with Unit steps per   *)
(* 1.0f; float division and sqrt truncate.  The cached reciprocal          *)
(* gridInverseCellWidth and the rule scales 0.01f / 0.1f are kept as exact *)
(* fractions.  A glm::vec3 is a record [x, y, z].  A device buffer of n    *)
(* elements is a function on 0..n-1.  The host thread's position inside    *)
(* initSimulation / stepSimulation* is pc; every kernel launch is a stage  *)
(* that finishes before the host issues the next one.  steps counts the    *)
(* completed steps and everOccupied is a history variable: the cells that  *)
(* have held an agent in some range-table construction so far.             *)
(* lastError is the CUDA runtime's record of a failed device operation     *)
(* (cudaSuccess when there is none) and diagnostic the message printed by  *)
(* checkCUDAError before exit.  dev_vel1, dev_vel2 and dev_vel1_temp are    *)
(* the contents the pointers of those names refer to; ptr records which    *)
(* allocation (the ordinal of its cudaMalloc call, 0 for none) each of the *)
(* three pointers holds.  produced is a history variable: the velocities   *)
(* the simulation holds after the last initSimulation or velocity update.  *)
(* stages is a history variable too: the device stages the current step    *)
(* has executed so far, in order.                                          *)
(* Where the threads of a kernel are modelled one by one, done is the set  *)
(* of thread indices of the running kernel that have finished, atLaunch    *)
(* the device buffers as they were when the kernel was launched and        *)
(* writers the history of the table entries written by the threads of      *)
(* kernIdentifyCellStartEnd: <<table, cell, thread>>.                      *)
(* heap is the device heap: calls counts the initSimulation calls made,    *)
(* live is the set of allocations made by cudaMalloc and not yet freed,    *)
(* refreed the allocations passed to cudaFree after they had been freed,   *)
(* and written the allocations every element of which has been stored to.  *)
(* ptr gives, for each of the nine device pointers, the allocation it      *)
(* holds (0 for the null pointer of a zero-initialised global).            *)
(* owner and atEntry are history variables.  owner gives, for every slot   *)
(* of the five position and velocity buffers, the agent whose state the    *)
(* slot holds, agents being named by the slot initSimulation gave them     *)
(* (-1 where the slot holds no agent's state); atEntry is dev_pos and its  *)
(* owners as they were when the current stepSimulation* call was entered.  *)
(***************************************************************************)
EXTENDS Integers, Sequences, FiniteSets, TLC

VARIABLES numObjects, dev_pos, dev_vel1, dev_vel2,
          dev_particleArrayIndices, dev_particleGridIndices,
          dev_gridCellStartIndices, dev_gridCellEndIndices,
          dev_pos_temp, dev_vel1_temp,
          gridCellCount, gridSideCount, gridCellWidth,
          gridInverseCellWidth, gridMinimum,
          pc, strategy, dt, allocated, steps, everOccupied,
          lastError, diagnostic, ptr, produced, stages,
          done, atLaunch, writers, heap, owner, atEntry

vars == <<numObjects, dev_pos, dev_vel1, dev_vel2,
          dev_particleArrayIndices, dev_particleGridIndices,
          dev_gridCellStartIndices, dev_gridCellEndIndices,
          dev_pos_temp, dev_vel1_temp,
          gridCellCount, gridSideCount, gridCellWidth,
          gridInverseCellWidth, gridMinimum,
          pc, strategy, dt, allocated, steps, everOccupied,
          lastError, diagnostic, ptr, produced, stages,
          done, atLaunch, writers, heap, owner, atEntry>>

grid == <<gridCellCount, gridSideCount, gridCellWidth,
          gridInverseCellWidth, gridMinimum>>

(***************************************************************************)
(* Bounds of the model                                                     *)
(***************************************************************************)
\* fixed-point resolution: steps per 1.0f
Unit == 10
\* largest agent count passed to initSimulation
MaxN == 3
\* number of stepSimulation* calls explored after initSimulation
MaxSteps == 2
\* number of initSimulation calls explored where the caller repeats them
MaxCalls == 2

(***************************************************************************)
(* Configuration (kernel.cu lines 42-57)                                   *)
(***************************************************************************)
blockSize == 128

rule1Distance == 5 * Unit
rule2Distance == 3 * Unit
rule3Distance == 5 * Unit

rule1Scale == [num |-> 1, den |-> 100]
rule2Scale == [num |-> 1, den |-> 10]
rule3Scale == [num |-> 1, den |-> 10]

maxSpeed == 1 * Unit

scene_scale == 100 * Unit

(***************************************************************************)
(* float and glm::vec3 arithmetic                                          *)
(***************************************************************************)
\* float division by a positive value, truncated toward zero
TDiv(a, b) == IF a >= 0 THEN a \div b ELSE -((-a) \div b)

\* float * float in fixed point
FMul(a, b) == TDiv(a * b, Unit)

Vec(a, b, c) == [x |-> a, y |-> b, z |-> c]

Zero3 == Vec(0, 0, 0)

VAdd(a, b) == Vec(a.x + b.x, a.y + b.y, a.z + b.z)

VSub(a, b) == Vec(a.x - b.x, a.y - b.y, a.z - b.z)

\* vec3 * float
VMul(v, s) == Vec(FMul(v.x, s), FMul(v.y, s), FMul(v.z, s))

\* vec3 / float
VDiv(v, s) == Vec(TDiv(v.x * Unit, s), TDiv(v.y * Unit, s), TDiv(v.z * Unit, s))

\* vec3 /= int
VDivInt(v, n) == Vec(TDiv(v.x, n), TDiv(v.y, n), TDiv(v.z, n))

\* vec3 * one of the rule scales
VScale(v, r) == Vec(TDiv(v.x * r.num, r.den), TDiv(v.y * r.num, r.den),
                    TDiv(v.z * r.num, r.den))

RECURSIVE SqrtSearch(_, _, _)
SqrtSearch(n, lo, hi) ==
  IF lo >= hi THEN lo
  ELSE LET mid == (lo + hi + 1) \div 2
       IN IF mid * mid <= n THEN SqrtSearch(n, mid, hi)
          ELSE SqrtSearch(n, lo, mid - 1)

\* sqrtf, truncated
FSqrt(n) == SqrtSearch(n, 0, IF n < 46340 THEN n ELSE 46340)

\* glm::length
Length(v) == FSqrt(v.x * v.x + v.y * v.y + v.z * v.z)

\* glm::distance
Distance(a, b) == Length(VSub(a, b))

Indices(n) == 0 .. (n - 1)

(***************************************************************************)
(* Initial conditions.  generateRandomVec3 is a fixed pseudo-random        *)
(* function of the agent index; the model draws it from a family indexed   *)
(* by a seed.  kernGenerateRandomPosArray stores scale * rand, which lies  *)
(* in [-scene_scale, scene_scale] on every axis.                           *)
(***************************************************************************)
P(a, b, c) == Vec(a * Unit, b * Unit, c * Unit)

PosList == << P(0, 0, 0), P(0, 0, 0), P(100, 100, 100), P(2, 0, 0),
              P(-2, 0, 0), P(-100, 40, 0), P(4, 3, 0), P(100, 98, 100) >>

PosSeeds == 0 .. (Len(PosList) - 1)

RandomPos(seed, index) == PosList[((seed + index) % Len(PosList)) + 1]

\* cudaMalloc does not initialise memory and initSimulation never writes
\* dev_vel1: the first step reads whatever the allocation holds.
VelList == << Zero3, Vec(2 * Unit, 0, 0), Vec(0, -Unit, Unit),
              Vec(Unit \div 2, 0, 0) >>

VelSeeds == 0 .. (Len(VelList) - 1)

GarbageVel(seed, index) == VelList[((seed + index) % Len(VelList)) + 1]

\* timesteps passed to stepSimulation*
DtSet == {Unit, 250 * Unit}

Buffers == {"dev_pos", "dev_vel1", "dev_vel2", "dev_particleArrayIndices",
            "dev_particleGridIndices", "dev_gridCellStartIndices",
            "dev_gridCellEndIndices", "dev_pos_temp", "dev_vel1_temp"}

(***************************************************************************)
(* initSimulation                                                          *)
(***************************************************************************)
\* dim3 fullBlocksPerGrid((N + blockSize - 1) / blockSize)
fullBlocksPerGrid(N) == TDiv(N + blockSize - 1, blockSize)

\* cudaMalloc(&p, N * sizeof(T)): the int N is converted to size_t, so a
\* negative N asks for nearly 2^64 bytes and the allocation fails.
cudaMallocFails(N) == N < 0

\* kernel<<<blocks, blockSize>>>: a grid of zero blocks is an invalid launch
\* configuration, reported by the cudaGetLastError of checkCUDAError.
launchFails(blocks) == blocks < 1

\* std::max(std::max(rule1Distance, rule2Distance), rule3Distance)
maxRuleDistance ==
  LET m == IF rule1Distance > rule2Distance THEN rule1Distance ELSE rule2Distance
  IN IF m > rule3Distance THEN m ELSE rule3Distance

\* gridCellWidth = 2.0f * max(...)
cellWidthParam == 2 * maxRuleDistance

\* int halfSideCount = (int)(scene_scale / gridCellWidth) + 1
halfSideCountParam == TDiv(scene_scale, cellWidthParam) + 1

errs == <<lastError, diagnostic>>

threads == <<done, atLaunch, writers>>

cudaSuccess == "cudaSuccess"

\* the cudaMalloc calls of initSimulation in program order; the launch of
\* kernGenerateRandomPosArray comes after the third
mallocOrder == << "dev_pos", "dev_vel1", "dev_vel2", "dev_particleArrayIndices",
                 "dev_particleGridIndices", "dev_gridCellStartIndices",
                 "dev_gridCellEndIndices", "dev_pos_temp", "dev_vel1_temp" >>

\* the buffers that hold one glm::vec3 for each agent
ParticleBuffers == {"dev_pos", "dev_vel1", "dev_vel2", "dev_pos_temp", "dev_vel1_temp"}

\* the place in initSimulation of the cudaMalloc that sets pointer b
ordinalOf(b) == CHOOSE k \in 1 .. Len(mallocOrder) : mallocOrder[k] = b

\* the allocation made by the k-th cudaMalloc of the initSimulation call that
\* follows `call` earlier calls
allocation(call, k) == Len(mallocOrder) * call + k

\* the device pointers when the cudaMalloc calls before the n-th of that
\* initSimulation call have succeeded: each stores its result over whatever
\* the pointer held
pointersOf(old, call, n) == [b \in Buffers |-> IF ordinalOf(b) < n THEN allocation(call, ordinalOf(b)) ELSE old[b]]

\* the pointers before any initSimulation
nullPointers == [b \in Buffers |-> 0]

\* the pointers when the cudaMalloc calls before the n-th of the first
\* initSimulation have succeeded
pointersBefore(n) == pointersOf(nullPointers, 0, n)

\* the heap when the cudaMalloc calls before the n-th of this initSimulation
\* call have succeeded and the allocations w have been filled
heapAfter(n, w) ==
  [calls |-> heap.calls + 1,
   live |-> heap.live \cup {allocation(heap.calls, k) : k \in 1 .. (n - 1)},
   refreed |-> heap.refreed,
   written |-> heap.written \cup w]

\* a kernel or copy has stored to every element of the buffers bs
stores(bs) == heap' = [heap EXCEPT !.written = @ \cup {ptr[b] : b \in bs}]

\* the message handed to checkCUDAError after each device operation that is
\* followed by a check: the cudaMalloc of each buffer and each kernel launch
messageOf ==
  [dev_pos |-> "cudaMalloc dev_pos failed!",
   dev_vel1 |-> "cudaMalloc dev_vel1 failed!",
   dev_vel2 |-> "cudaMalloc dev_vel2 failed!",
   kernGenerateRandomPosArray |-> "kernGenerateRandomPosArray failed!",
   dev_particleArrayIndices |-> "cudaMalloc dev_particleArrayIndices failed!",
   dev_particleGridIndices |-> "cudaMalloc dev_particleGridIndices failed!",
   dev_gridCellStartIndices |-> "cudaMalloc dev_gridCellStartIndices failed!",
   dev_gridCellEndIndices |-> "cudaMalloc dev_gridCellEndIndices failed!",
   dev_pos_temp |-> "cudaMalloc dev_pos_temp failed!",
   dev_vel1_temp |-> "cudaMalloc dev_vel1_temp failed!",
   kernUpdateVelocityBruteForce |-> "kernUpdateVelocityBruteForce failed!",
   kernComputeIndices |-> "kernComputeIndices failed!",
   resetStart |-> "kernResetIntBuffer Start failed!",
   resetEnd |-> "kernResetIntBuffer End failed!",
   kernIdentifyCellStartEnd |-> "kernIdentifyCellStartEnd failed!",
   kernReorderData |-> "kernReorderData failed!",
   kernUpdateVelNeighborSearchScattered |->
     "kernUpdateVelNeighborSearchScattered failed!",
   kernUpdateVelNeighborSearchCoherent |->
     "kernUpdateVelNeighborSearchCoherent failed!",
   kernUpdatePos |-> "kernUpdatePos failed!"]

Init ==
  /\ numObjects = 0
  /\ dev_pos = << >>
  /\ dev_vel1 = << >>
  /\ dev_vel2 = << >>
  /\ dev_particleArrayIndices = << >>
  /\ dev_particleGridIndices = << >>
  /\ dev_gridCellStartIndices = << >>
  /\ dev_gridCellEndIndices = << >>
  /\ dev_pos_temp = << >>
  /\ dev_vel1_temp = << >>
  /\ gridCellCount = 0
  /\ gridSideCount = 0
  /\ gridCellWidth = 0
  /\ gridInverseCellWidth = [num |-> 0, den |-> 1]
  /\ gridMinimum = Zero3
  /\ pc = "boot"
  /\ strategy = "none"
  /\ dt = 0
  /\ allocated = {}
  /\ steps = 0
  /\ everOccupied = {}
  /\ lastError = cudaSuccess
  /\ diagnostic = ""
  /\ ptr = nullPointers
  /\ produced = << >>
  /\ stages = << >>
  /\ done = {}
  /\ atLaunch = << >>
  /\ writers = {}
  /\ heap = [calls |-> 0, live |-> {}, refreed |-> {}, written |-> {}]
  /\ owner = [b \in ParticleBuffers |-> << >>]
  /\ atEntry = [pos |-> << >>, owner |-> << >>]

\* the body of initSimulation once N is known to be allocatable and launchable
initSimulationBody(N, ps, vs) ==
  LET halfSideCount == halfSideCountParam
      sideCount == 2 * halfSideCount
      cellCount == sideCount * sideCount * sideCount
      halfGridWidth == cellWidthParam * halfSideCount
  IN /\ dev_pos' = [i \in Indices(N) |-> RandomPos(ps, i)]
     /\ dev_vel1' = [i \in Indices(N) |-> GarbageVel(vs, i)]
     /\ dev_vel2' = [i \in Indices(N) |-> Zero3]
     /\ gridCellWidth' = cellWidthParam
     /\ gridSideCount' = sideCount
     /\ gridCellCount' = cellCount
     /\ gridInverseCellWidth' = [num |-> Unit, den |-> cellWidthParam]
     /\ gridMinimum' = Vec(gridMinimum.x - halfGridWidth,
                           gridMinimum.y - halfGridWidth,
                           gridMinimum.z - halfGridWidth)
     /\ dev_particleArrayIndices' = [i \in Indices(N) |-> 0]
     /\ dev_particleGridIndices' = [i \in Indices(N) |-> 0]
     /\ dev_gridCellStartIndices' = [c \in Indices(cellCount) |-> 0]
     /\ dev_gridCellEndIndices' = [c \in Indices(cellCount) |-> 0]
     /\ dev_pos_temp' = [i \in Indices(N) |-> Zero3]
     /\ dev_vel1_temp' = [i \in Indices(N) |-> Zero3]
     /\ allocated' = Buffers
     /\ pc' = "idle"
     /\ UNCHANGED errs
     /\ ptr' = pointersOf(ptr, heap.calls, Len(mallocOrder) + 1)
     /\ heap' = heapAfter(Len(mallocOrder) + 1, {allocation(heap.calls, ordinalOf("dev_pos"))})
     /\ produced' = dev_vel1'
     /\ owner' = [b \in ParticleBuffers |->
                    [i \in Indices(N) |-> IF b \in {"dev_pos", "dev_vel1"} THEN i ELSE -1]]

\* one call of initSimulation(N)
initSimulationCall(N, ps, vs) ==
  /\ UNCHANGED threads
  /\ UNCHANGED atEntry
  /\ stages' = << >>
  /\ numObjects' = N
  /\ strategy' = "none"
  /\ UNCHANGED <<dt, steps, everOccupied>>
  /\ IF cudaMallocFails(N)
     THEN \* checkCUDAError("cudaMalloc dev_pos failed!") exits
          /\ pc' = "exit"
          /\ lastError' = "dev_pos"
          /\ diagnostic' = messageOf["dev_pos"]
          /\ UNCHANGED <<ptr, produced>>
          /\ heap' = heapAfter(1, {})
          /\ UNCHANGED owner
          /\ allocated' = {}
          /\ UNCHANGED <<dev_pos, dev_vel1, dev_vel2, dev_particleArrayIndices,
                         dev_particleGridIndices, dev_gridCellStartIndices,
                         dev_gridCellEndIndices, dev_pos_temp, dev_vel1_temp, grid>>
     ELSE IF launchFails(fullBlocksPerGrid(N))
     THEN \* checkCUDAError("kernGenerateRandomPosArray failed!") exits
          /\ pc' = "exit"
          /\ lastError' = "kernGenerateRandomPosArray"
          /\ diagnostic' = messageOf["kernGenerateRandomPosArray"]
          /\ ptr' = pointersOf(ptr, heap.calls, 4)
          /\ heap' = heapAfter(4, {})
          /\ UNCHANGED owner
          /\ UNCHANGED produced
          /\ allocated' = {"dev_pos", "dev_vel1", "dev_vel2"}
          /\ dev_pos' = [i \in Indices(N) |-> Zero3]
          /\ dev_vel1' = [i \in Indices(N) |-> Zero3]
          /\ dev_vel2' = [i \in Indices(N) |-> Zero3]
          /\ UNCHANGED <<dev_particleArrayIndices,
                         dev_particleGridIndices, dev_gridCellStartIndices,
                         dev_gridCellEndIndices, dev_pos_temp, dev_vel1_temp, grid>>
     ELSE initSimulationBody(N, ps, vs)

\* the first initSimulation of the run
InitSimulation(N, ps, vs) ==
  /\ pc = "boot"
  /\ initSimulationCall(N, ps, vs)

(***************************************************************************)
(* The three flocking rules                                                *)
(***************************************************************************)
NoNeighbors == [perceived_center |-> Zero3, c |-> Zero3,
                perceived_velocity |-> Zero3,
                rule1_neighbor_count |-> 0, rule3_neighbor_count |-> 0]

\* the loop body with the sign of rule 2 reversed (c += instead of c -=)
applyRulesAttract(acc, selfPos, otherPos, otherVel) ==
  LET distance == Distance(selfPos, otherPos)
  IN [perceived_center |->
        IF distance < rule1Distance
        THEN VAdd(acc.perceived_center, otherPos) ELSE acc.perceived_center,
      rule1_neighbor_count |->
        IF distance < rule1Distance
        THEN acc.rule1_neighbor_count + 1 ELSE acc.rule1_neighbor_count,
      c |->
        IF distance < rule2Distance
        THEN VAdd(acc.c, VSub(otherPos, selfPos)) ELSE acc.c,
      perceived_velocity |->
        IF distance < rule3Distance
        THEN VAdd(acc.perceived_velocity, otherVel) ELSE acc.perceived_velocity,
      rule3_neighbor_count |->
        IF distance < rule3Distance
        THEN acc.rule3_neighbor_count + 1 ELSE acc.rule3_neighbor_count]

\* the loop body shared by computeVelocityChange, computeVelScattered and
\* computeVelCoherent: one candidate neighbour against the three rules
applyRules(acc, selfPos, otherPos, otherVel) ==
  LET distance == Distance(selfPos, otherPos)
  IN [perceived_center |->
        IF distance < rule1Distance
        THEN VAdd(acc.perceived_center, otherPos) ELSE acc.perceived_center,
      rule1_neighbor_count |->
        IF distance < rule1Distance
        THEN acc.rule1_neighbor_count + 1 ELSE acc.rule1_neighbor_count,
      c |->
        IF distance < rule2Distance
        THEN VSub(acc.c, VSub(otherPos, selfPos)) ELSE acc.c,
      perceived_velocity |->
        IF distance < rule3Distance
        THEN VAdd(acc.perceived_velocity, otherVel) ELSE acc.perceived_velocity,
      rule3_neighbor_count |->
        IF distance < rule3Distance
        THEN acc.rule3_neighbor_count + 1 ELSE acc.rule3_neighbor_count]

\* averages, then (perceived_center - pos) * rule1Scale + c * rule2Scale
\*                 + perceived_velocity * rule3Scale
ruleSum(acc, selfPos) ==
  LET center == IF acc.rule1_neighbor_count > 0
                THEN VDivInt(acc.perceived_center, acc.rule1_neighbor_count)
                ELSE acc.perceived_center
      velocity == IF acc.rule3_neighbor_count > 0
                  THEN VDivInt(acc.perceived_velocity, acc.rule3_neighbor_count)
                  ELSE acc.perceived_velocity
  IN VAdd(VAdd(VScale(VSub(center, selfPos), rule1Scale),
               VScale(acc.c, rule2Scale)),
          VScale(velocity, rule3Scale))

\* the velocity update without the speed clamp
clampSpeedMissing(new_vel) == new_vel

\* speed = glm::length(new_vel); if (speed > maxSpeed) new_vel = new_vel / speed * maxSpeed
clampSpeed(new_vel) ==
  LET speed == Length(new_vel)
  IN IF speed > maxSpeed THEN VMul(VDiv(new_vel, speed), maxSpeed) ELSE new_vel

RECURSIVE bruteForceLoop(_, _, _, _, _, _)
bruteForceLoop(i, N, iSelf, pos, vel, acc) ==
  IF i >= N THEN acc
  ELSE bruteForceLoop(i + 1, N, iSelf, pos, vel,
         IF i = iSelf THEN acc
         ELSE applyRules(acc, pos[iSelf], pos[i], vel[i]))

computeVelocityChange(N, iSelf, pos, vel) ==
  ruleSum(bruteForceLoop(0, N, iSelf, pos, vel, NoNeighbors), pos[iSelf])

\* one thread of kernUpdateVelocityBruteForce: the value stored in vel2[index]
updateVelocityBruteForce(N, index, pos, vel1) ==
  clampSpeed(VAdd(vel1[index], computeVelocityChange(N, index, pos, vel1)))

(***************************************************************************)
(* kernUpdatePos                                                           *)
(***************************************************************************)
\* the lower bound held instead of wrapped to the upper bound
wrapLowClamps(a) == IF a < -scene_scale THEN -scene_scale ELSE a

wrapLow(a) == IF a < -scene_scale THEN scene_scale ELSE a

\* kernUpdatePos without the wrap at the positive bound
wrapHighMissing(a) == a

wrapHigh(a) == IF a > scene_scale THEN -scene_scale ELSE a

\* one thread of kernUpdatePos: the value stored in pos[index]
updatePos(d, p, v) ==
  LET thisPos == VAdd(p, VMul(v, d))
  IN Vec(wrapHigh(wrapLow(thisPos.x)), wrapHigh(wrapLow(thisPos.y)),
         wrapHigh(wrapLow(thisPos.z)))

(***************************************************************************)
(* Uniform grid: indices, sort, cell ranges                                *)
(***************************************************************************)
gridIndex3Dto1D(x, y, z, gridResolution) ==
  x + y * gridResolution + z * gridResolution * gridResolution

\* relative * inverseCellWidth as an exact fraction of whole cells
cellFraction(relative, inverseCellWidth) ==
  [num |-> relative * inverseCellWidth.num, den |-> Unit * inverseCellWidth.den]

\* (int)f: conversion to int truncates toward zero
truncToInt(f) == TDiv(f.num, f.den)

\* (int)floorf(f)
floorToInt(f) == f.num \div f.den

imax(a, b) == IF a > b THEN a ELSE b

imin(a, b) == IF a < b THEN a ELSE b

\* the clamp without its lower bound
clampCellUpperOnly(x, gridResolution) == imin(x, gridResolution - 1)

\* max(0, min(x, gridResolution - 1))
clampCell(x, gridResolution) == imax(0, imin(x, gridResolution - 1))

\* one thread of kernComputeIndices: the value stored in gridIndices[index]
computeGridIndex(gridResolution, gridMin, inverseCellWidth, boid_pos) ==
  LET relative_pos == VSub(boid_pos, gridMin)
      x == truncToInt(cellFraction(relative_pos.x, inverseCellWidth))
      y == truncToInt(cellFraction(relative_pos.y, inverseCellWidth))
      z == truncToInt(cellFraction(relative_pos.z, inverseCellWidth))
  IN gridIndex3Dto1D(clampCell(x, gridResolution), clampCell(y, gridResolution),
                     clampCell(z, gridResolution), gridResolution)

\* a permutation of the pairs that does not order the keys
sortOutcomesUnordered(N, keys) ==
  {p \in [Indices(N) -> Indices(N)] :
     \A a, b \in Indices(N) : a # b => p[a] # p[b]}

\* thrust::sort_by_key(keys, keys + N, values): keys ascending, each value
\* moved with its key, ties in any order.  A result is the permutation p
\* with sortedKeys[k] = keys[p[k]], sortedValues[k] = values[p[k]].
sortOutcomes(N, keys) ==
  {p \in [Indices(N) -> Indices(N)] :
     /\ \A a, b \in Indices(N) : a # b => p[a] # p[b]
     /\ \A a, b \in Indices(N) : a < b => keys[p[a]] <= keys[p[b]]}

\* kernResetIntBuffer writing nothing
resetIntBufferSkipped(N, intBuffer, value) == intBuffer

\* kernResetIntBuffer
resetIntBuffer(N, intBuffer, value) ==
  [index \in DOMAIN intBuffer |-> IF index < N THEN value ELSE intBuffer[index]]

\* identifyThread without the test against the cell id before it: every
\* thread stores its index as the start of its cell
identifyThreadEveryStart(index, N, particleGridIndices, t) ==
  LET gridIndex == particleGridIndices[index]
      isEnd == index = N - 1 \/ gridIndex # particleGridIndices[index + 1]
  IN [start |-> [t.start EXCEPT ![gridIndex] = index],
      end |-> IF isEnd THEN [t.end EXCEPT ![gridIndex] = index] ELSE t.end]

\* identifyThread without the index == N - 1 case of the end test
identifyThreadNoLast(index, N, particleGridIndices, t) ==
  LET gridIndex == particleGridIndices[index]
      isStart == index = 0 \/ gridIndex # particleGridIndices[index - 1]
      isEnd == index < N - 1 /\ gridIndex # particleGridIndices[index + 1]
  IN [start |-> IF isStart THEN [t.start EXCEPT ![gridIndex] = index] ELSE t.start,
      end |-> IF isEnd THEN [t.end EXCEPT ![gridIndex] = index] ELSE t.end]

\* one thread of kernIdentifyCellStartEnd on the tables t = [start, end]
identifyThread(index, N, particleGridIndices, t) ==
  LET gridIndex == particleGridIndices[index]
      isStart == index = 0 \/ gridIndex # particleGridIndices[index - 1]
      isEnd == index = N - 1 \/ gridIndex # particleGridIndices[index + 1]
  IN [start |-> IF isStart THEN [t.start EXCEPT ![gridIndex] = index] ELSE t.start,
      end |-> IF isEnd THEN [t.end EXCEPT ![gridIndex] = index] ELSE t.end]

\* all N threads of kernIdentifyCellStartEnd
RECURSIVE identifyCellStartEnd(_, _, _, _)
identifyCellStartEnd(index, N, particleGridIndices, t) ==
  IF index >= N THEN t
  ELSE identifyCellStartEnd(index + 1, N, particleGridIndices,
                            identifyThread(index, N, particleGridIndices, t))

(***************************************************************************)
(* Neighbour search                                                        *)
(***************************************************************************)
\* axisRange whose loop never starts at offset -1
axisRangeNoLower(relative, inverseCellWidth) ==
  LET x_pos == cellFraction(relative, inverseCellWidth)
      x == floorToInt(x_pos)
      fracNum == x_pos.num - x * x_pos.den
  IN [cell |-> x,
      lo |-> 0,
      hi |-> IF 2 * fracNum > x_pos.den THEN 1 ELSE 0]

\* axisRange with the bias test of the two loop bounds exchanged
axisRangeFlipped(relative, inverseCellWidth) ==
  LET x_pos == [num |-> relative * inverseCellWidth.num,
                den |-> Unit * inverseCellWidth.den]
      x == x_pos.num \div x_pos.den
      fracNum == x_pos.num - x * x_pos.den
  IN [cell |-> x,
      lo |-> IF 2 * fracNum > x_pos.den THEN -1 ELSE 0,
      hi |-> IF 2 * fracNum < x_pos.den THEN 1 ELSE 0]

\* the cell coordinate and the loop bounds of one axis:
\*   x = (int)floorf(x_pos); x_frac = x_pos - x;
\*   for (i = (x_frac < 0.5f ? -1 : 0); i <= (x_frac > 0.5f ? 1 : 0); i++)
axisRange(relative, inverseCellWidth) ==
  LET x_pos == cellFraction(relative, inverseCellWidth)
      x == floorToInt(x_pos)
      fracNum == x_pos.num - x * x_pos.den
  IN [cell |-> x,
      lo |-> IF 2 * fracNum < x_pos.den THEN -1 ELSE 0,
      hi |-> IF 2 * fracNum > x_pos.den THEN 1 ELSE 0]

\* the grid indices handed to computeVel*, in the i -> j -> k order of the
\* loops; cells outside the grid are skipped (continue)
neighborCells(gridResolution, gridMin, inverseCellWidth, boid_pos) ==
  LET relative_pos == VSub(boid_pos, gridMin)
      ax == axisRange(relative_pos.x, inverseCellWidth)
      ay == axisRange(relative_pos.y, inverseCellWidth)
      az == axisRange(relative_pos.z, inverseCellWidth)
      ny == ay.hi - ay.lo + 1
      nz == az.hi - az.lo + 1
      count == (ax.hi - ax.lo + 1) * ny * nz
      newX(m) == ax.cell + ax.lo + (m \div (ny * nz))
      newY(m) == ay.cell + ay.lo + ((m \div nz) % ny)
      newZ(m) == az.cell + az.lo + (m % nz)
      inside(m) == ~ (\/ newX(m) < 0 \/ newX(m) >= gridResolution
                      \/ newY(m) < 0 \/ newY(m) >= gridResolution
                      \/ newZ(m) < 0 \/ newZ(m) >= gridResolution)
  IN SelectSeq([n \in 1 .. count |->
                  IF inside(n - 1)
                  THEN gridIndex3Dto1D(newX(n - 1), newY(n - 1), newZ(n - 1),
                                       gridResolution)
                  ELSE -1],
               LAMBDA g : g >= 0)

\* the loop over a cell's range with end taken as exclusive
RECURSIVE scatteredLoopExclusive(_, _, _, _, _, _, _)
scatteredLoopExclusive(i, end, iSelf, particleArrayIndices, pos, vel, acc) ==
  IF i >= end THEN acc
  ELSE LET boid_index == particleArrayIndices[i]
       IN scatteredLoopExclusive(i + 1, end, iSelf, particleArrayIndices, pos, vel,
            IF boid_index < 0 \/ boid_index = iSelf THEN acc
            ELSE applyRules(acc, pos[iSelf], pos[boid_index], vel[boid_index]))

RECURSIVE scatteredLoop(_, _, _, _, _, _, _)
scatteredLoop(i, end, iSelf, particleArrayIndices, pos, vel, acc) ==
  IF i > end THEN acc
  ELSE LET boid_index == particleArrayIndices[i]
       IN scatteredLoop(i + 1, end, iSelf, particleArrayIndices, pos, vel,
            IF boid_index < 0 \/ boid_index = iSelf THEN acc
            ELSE applyRules(acc, pos[iSelf], pos[boid_index], vel[boid_index]))

computeVelScattered(iSelf, gridIndex, gridCellStartIndices, gridCellEndIndices, particleArrayIndices, pos, vel, acc) ==
  LET start == gridCellStartIndices[gridIndex]
      end == gridCellEndIndices[gridIndex]
  IN IF start = -1 \/ end = -1 \/ start > end THEN acc
     ELSE scatteredLoop(start, end, iSelf, particleArrayIndices, pos, vel, acc)

\* the loop over a cell's range of slots with end taken as exclusive
RECURSIVE coherentLoopExclusive(_, _, _, _, _, _)
coherentLoopExclusive(i, end, iSelf, pos, vel, acc) ==
  IF i >= end THEN acc
  ELSE coherentLoopExclusive(i + 1, end, iSelf, pos, vel,
         IF i = iSelf THEN acc
         ELSE applyRules(acc, pos[iSelf], pos[i], vel[i]))

RECURSIVE coherentLoop(_, _, _, _, _, _)
coherentLoop(i, end, iSelf, pos, vel, acc) ==
  IF i > end THEN acc
  ELSE coherentLoop(i + 1, end, iSelf, pos, vel,
         IF i = iSelf THEN acc
         ELSE applyRules(acc, pos[iSelf], pos[i], vel[i]))

computeVelCoherent(iSelf, gridIndex, gridCellStartIndices, gridCellEndIndices, pos, vel, acc) ==
  LET start == gridCellStartIndices[gridIndex]
      end == gridCellEndIndices[gridIndex]
  IN IF start = -1 \/ end = -1 \/ start > end THEN acc
     ELSE coherentLoop(start, end, iSelf, pos, vel, acc)

\* the accumulators of one thread of kernUpdateVelNeighborSearchScattered
\* after its loops over the neighbouring cells
RECURSIVE scatteredCells(_, _, _, _, _, _, _, _, _)
scatteredCells(n, cells, iSelf, starts, ends, particleArrayIndices, pos, vel, acc) ==
  IF n > Len(cells) THEN acc
  ELSE scatteredCells(n + 1, cells, iSelf, starts, ends, particleArrayIndices,
         pos, vel,
         computeVelScattered(iSelf, cells[n], starts, ends,
                             particleArrayIndices, pos, vel, acc))

searchScattered(index, gridResolution, gridMin, inverseCellWidth, starts, ends, particleArrayIndices, pos, vel1) ==
  scatteredCells(1, neighborCells(gridResolution, gridMin, inverseCellWidth,
                                  pos[index]),
                 index, starts, ends, particleArrayIndices, pos, vel1, NoNeighbors)

\* one thread of kernUpdateVelNeighborSearchScattered: the value stored in
\* vel2[index]
updateVelScattered(index, gridResolution, gridMin, inverseCellWidth, starts, ends, particleArrayIndices, pos, vel1) ==
  clampSpeed(VAdd(vel1[index],
                  ruleSum(searchScattered(index, gridResolution, gridMin,
                                          inverseCellWidth, starts, ends,
                                          particleArrayIndices, pos, vel1),
                          pos[index])))

RECURSIVE coherentCells(_, _, _, _, _, _, _, _)
coherentCells(n, cells, iSelf, starts, ends, pos, vel, acc) ==
  IF n > Len(cells) THEN acc
  ELSE coherentCells(n + 1, cells, iSelf, starts, ends, pos, vel,
         computeVelCoherent(iSelf, cells[n], starts, ends, pos, vel, acc))

searchCoherent(index, gridResolution, gridMin, inverseCellWidth, starts, ends, pos, vel1) ==
  coherentCells(1, neighborCells(gridResolution, gridMin, inverseCellWidth,
                                 pos[index]),
                index, starts, ends, pos, vel1, NoNeighbors)

\* one thread of kernUpdateVelNeighborSearchCoherent: the value stored in
\* vel2[index]
updateVelCoherent(index, gridResolution, gridMin, inverseCellWidth, starts, ends, pos, vel1) ==
  clampSpeed(VAdd(vel1[index],
                  ruleSum(searchCoherent(index, gridResolution, gridMin,
                                         inverseCellWidth, starts, ends, pos, vel1),
                          pos[index])))

(***************************************************************************)
(* The step functions, one action per host statement                       *)
(***************************************************************************)
particles == <<dev_pos, dev_vel1, dev_vel2, dev_pos_temp, dev_vel1_temp>>

tables == <<dev_particleArrayIndices, dev_particleGridIndices,
            dev_gridCellStartIndices, dev_gridCellEndIndices>>

\* the strategy is selected once per run
enter(s, d, first) ==
  /\ pc = "idle"
  /\ UNCHANGED owner
  /\ atEntry' = [pos |-> dev_pos, owner |-> owner.dev_pos]
  /\ UNCHANGED heap
  /\ UNCHANGED threads
  /\ stages' = << >>
  /\ steps < MaxSteps
  /\ UNCHANGED errs
  /\ UNCHANGED <<ptr, produced>>
  /\ strategy \in {"none", s}
  /\ strategy' = s
  /\ dt' = d
  /\ pc' = first
  /\ UNCHANGED <<numObjects, particles, tables, grid, allocated, steps, everOccupied>>

StepSimulationNaive(d) == enter("Naive", d, "kernUpdateVelocityBruteForce")

StepSimulationScatteredGrid(d) == enter("ScatteredGrid", d, "kernComputeIndices")

StepSimulationCoherentGrid(d) == enter("CoherentGrid", d, "kernComputeIndices")

KernUpdateVelocityBruteForce ==
  /\ pc = "kernUpdateVelocityBruteForce"
  /\ owner' = [owner EXCEPT !.dev_vel2 = owner.dev_pos]
  /\ UNCHANGED atEntry
  /\ stores({"dev_vel2"})
  /\ UNCHANGED threads
  /\ stages' = Append(stages, pc)
  /\ lastError = cudaSuccess
  /\ UNCHANGED errs
  /\ UNCHANGED ptr
  /\ dev_vel2' = [index \in Indices(numObjects) |->
                    updateVelocityBruteForce(numObjects, index, dev_pos, dev_vel1)]
  /\ produced' = dev_vel2'
  /\ pc' = "kernUpdatePos"
  /\ UNCHANGED <<numObjects, dev_pos, dev_vel1, dev_pos_temp, dev_vel1_temp,
                 tables, grid, strategy, dt, allocated, steps, everOccupied>>

KernComputeIndices ==
  /\ pc = "kernComputeIndices"
  /\ UNCHANGED owner
  /\ UNCHANGED atEntry
  /\ stores({"dev_particleArrayIndices", "dev_particleGridIndices"})
  /\ UNCHANGED threads
  /\ stages' = Append(stages, pc)
  /\ lastError = cudaSuccess
  /\ UNCHANGED errs
  /\ UNCHANGED <<ptr, produced>>
  /\ dev_particleArrayIndices' = [index \in Indices(numObjects) |-> index]
  /\ dev_particleGridIndices' =
       [index \in Indices(numObjects) |->
          computeGridIndex(gridSideCount, gridMinimum, gridInverseCellWidth,
                           dev_pos[index])]
  /\ pc' = "sort_by_key"
  /\ UNCHANGED <<numObjects, particles, dev_gridCellStartIndices,
                 dev_gridCellEndIndices, grid, strategy, dt, allocated, steps, everOccupied>>

\* the sort followed at once by kernIdentifyCellStartEnd, the two resets
\* left out of the step
SortByKeySkipsReset ==
  /\ pc = "sort_by_key"
  /\ UNCHANGED owner
  /\ UNCHANGED atEntry
  /\ UNCHANGED heap
  /\ UNCHANGED threads
  /\ stages' = Append(stages, pc)
  /\ UNCHANGED errs
  /\ UNCHANGED <<ptr, produced>>
  /\ \E p \in sortOutcomes(numObjects, dev_particleGridIndices) :
       /\ dev_particleGridIndices' =
            [k \in Indices(numObjects) |-> dev_particleGridIndices[p[k]]]
       /\ dev_particleArrayIndices' =
            [k \in Indices(numObjects) |-> dev_particleArrayIndices[p[k]]]
  /\ pc' = "kernIdentifyCellStartEnd"
  /\ UNCHANGED <<numObjects, particles, dev_gridCellStartIndices,
                 dev_gridCellEndIndices, grid, strategy, dt, allocated, steps, everOccupied>>

SortByKey ==
  /\ pc = "sort_by_key"
  /\ UNCHANGED owner
  /\ UNCHANGED atEntry
  /\ UNCHANGED heap
  /\ UNCHANGED threads
  /\ stages' = Append(stages, pc)
  /\ UNCHANGED errs
  /\ UNCHANGED <<ptr, produced>>
  /\ \E p \in sortOutcomes(numObjects, dev_particleGridIndices) :
       /\ dev_particleGridIndices' =
            [k \in Indices(numObjects) |-> dev_particleGridIndices[p[k]]]
       /\ dev_particleArrayIndices' =
            [k \in Indices(numObjects) |-> dev_particleArrayIndices[p[k]]]
  /\ pc' = "resetStart"
  /\ UNCHANGED <<numObjects, particles, dev_gridCellStartIndices,
                 dev_gridCellEndIndices, grid, strategy, dt, allocated, steps, everOccupied>>

ResetStart ==
  /\ pc = "resetStart"
  /\ UNCHANGED owner
  /\ UNCHANGED atEntry
  /\ stores({"dev_gridCellStartIndices"})
  /\ UNCHANGED threads
  /\ stages' = Append(stages, pc)
  /\ lastError = cudaSuccess
  /\ UNCHANGED errs
  /\ UNCHANGED <<ptr, produced>>
  /\ dev_gridCellStartIndices' =
       resetIntBuffer(gridCellCount, dev_gridCellStartIndices, -1)
  /\ pc' = "resetEnd"
  /\ UNCHANGED <<numObjects, particles, dev_particleArrayIndices,
                 dev_particleGridIndices, dev_gridCellEndIndices, grid,
                 strategy, dt, allocated, steps, everOccupied>>

ResetEnd ==
  /\ pc = "resetEnd"
  /\ UNCHANGED owner
  /\ UNCHANGED atEntry
  /\ stores({"dev_gridCellEndIndices"})
  /\ UNCHANGED threads
  /\ stages' = Append(stages, pc)
  /\ lastError = cudaSuccess
  /\ UNCHANGED errs
  /\ UNCHANGED <<ptr, produced>>
  /\ dev_gridCellEndIndices' =
       resetIntBuffer(gridCellCount, dev_gridCellEndIndices, -1)
  /\ pc' = "kernIdentifyCellStartEnd"
  /\ UNCHANGED <<numObjects, particles, dev_particleArrayIndices,
                 dev_particleGridIndices, dev_gridCellStartIndices, grid,
                 strategy, dt, allocated, steps, everOccupied>>

KernIdentifyCellStartEnd ==
  /\ pc = "kernIdentifyCellStartEnd"
  /\ UNCHANGED owner
  /\ UNCHANGED atEntry
  /\ UNCHANGED heap
  /\ UNCHANGED threads
  /\ stages' = Append(stages, pc)
  /\ lastError = cudaSuccess
  /\ UNCHANGED errs
  /\ UNCHANGED <<ptr, produced>>
  /\ LET t == identifyCellStartEnd(0, numObjects, dev_particleGridIndices,
                [start |-> dev_gridCellStartIndices,
                 end |-> dev_gridCellEndIndices])
     IN /\ dev_gridCellStartIndices' = t.start
        /\ dev_gridCellEndIndices' = t.end
  /\ pc' = IF strategy = "CoherentGrid" THEN "kernReorderData"
           ELSE "kernUpdateVelNeighborSearchScattered"
  /\ everOccupied' = everOccupied \cup
                       {dev_particleGridIndices[k] : k \in Indices(numObjects)}
  /\ UNCHANGED <<numObjects, particles, dev_particleArrayIndices,
                 dev_particleGridIndices, grid, strategy, dt, allocated, steps>>

\* kernReorderData without the indirection through indices
reorderDataDirect(index, src, indices) == src[index]

\* one thread of kernReorderData: the value stored in dst[index]
reorderData(index, src, indices) == src[indices[index]]

KernReorderData ==
  /\ pc = "kernReorderData"
  /\ owner' = [owner EXCEPT !.dev_pos_temp = [k \in Indices(numObjects) |-> owner.dev_pos[dev_particleArrayIndices[k]]],
                        !.dev_vel1_temp = [k \in Indices(numObjects) |-> owner.dev_vel1[dev_particleArrayIndices[k]]]]
  /\ UNCHANGED atEntry
  /\ stores({"dev_pos_temp", "dev_vel1_temp"})
  /\ UNCHANGED threads
  /\ stages' = Append(stages, pc)
  /\ lastError = cudaSuccess
  /\ UNCHANGED errs
  /\ UNCHANGED <<ptr, produced>>
  /\ dev_pos_temp' = [index \in Indices(numObjects) |->
                        reorderData(index, dev_pos, dev_particleArrayIndices)]
  /\ dev_vel1_temp' = [index \in Indices(numObjects) |->
                         reorderData(index, dev_vel1, dev_particleArrayIndices)]
  /\ pc' = "kernUpdateVelNeighborSearchCoherent"
  /\ UNCHANGED <<numObjects, dev_pos, dev_vel1, dev_vel2, tables, grid,
                 strategy, dt, allocated, steps, everOccupied>>

KernUpdateVelNeighborSearchScattered ==
  /\ pc = "kernUpdateVelNeighborSearchScattered"
  /\ owner' = [owner EXCEPT !.dev_vel2 = owner.dev_pos]
  /\ UNCHANGED atEntry
  /\ stores({"dev_vel2"})
  /\ UNCHANGED threads
  /\ stages' = Append(stages, pc)
  /\ lastError = cudaSuccess
  /\ UNCHANGED errs
  /\ UNCHANGED ptr
  /\ dev_vel2' = [index \in Indices(numObjects) |->
                    updateVelScattered(index, gridSideCount, gridMinimum,
                                       gridInverseCellWidth,
                                       dev_gridCellStartIndices,
                                       dev_gridCellEndIndices,
                                       dev_particleArrayIndices, dev_pos, dev_vel1)]
  /\ produced' = dev_vel2'
  /\ pc' = "kernUpdatePos"
  /\ UNCHANGED <<numObjects, dev_pos, dev_vel1, dev_pos_temp, dev_vel1_temp,
                 tables, grid, strategy, dt, allocated, steps, everOccupied>>

KernUpdateVelNeighborSearchCoherent ==
  /\ pc = "kernUpdateVelNeighborSearchCoherent"
  /\ owner' = [owner EXCEPT !.dev_vel2 = owner.dev_pos_temp]
  /\ UNCHANGED atEntry
  /\ stores({"dev_vel2"})
  /\ UNCHANGED threads
  /\ stages' = Append(stages, pc)
  /\ lastError = cudaSuccess
  /\ UNCHANGED errs
  /\ UNCHANGED ptr
  /\ dev_vel2' = [index \in Indices(numObjects) |->
                    updateVelCoherent(index, gridSideCount, gridMinimum,
                                      gridInverseCellWidth,
                                      dev_gridCellStartIndices,
                                      dev_gridCellEndIndices,
                                      dev_pos_temp, dev_vel1_temp)]
  /\ produced' = dev_vel2'
  /\ pc' = "kernUpdatePos"
  /\ UNCHANGED <<numObjects, dev_pos, dev_vel1, dev_pos_temp, dev_vel1_temp,
                 tables, grid, strategy, dt, allocated, steps, everOccupied>>

\* kernUpdatePos(numObjects, dt, dev_pos, dev_vel2), or on dev_pos_temp in
\* the coherent step
KernUpdatePos ==
  /\ pc = "kernUpdatePos"
  /\ UNCHANGED owner
  /\ UNCHANGED atEntry
  /\ stores({IF strategy = "CoherentGrid" THEN "dev_pos_temp" ELSE "dev_pos"})
  /\ UNCHANGED threads
  /\ stages' = Append(stages, pc)
  /\ lastError = cudaSuccess
  /\ UNCHANGED errs
  /\ UNCHANGED <<ptr, produced>>
  /\ IF strategy = "CoherentGrid"
     THEN /\ dev_pos_temp' = [index \in Indices(numObjects) |->
                                updatePos(dt, dev_pos_temp[index], dev_vel2[index])]
          /\ pc' = "memcpyPos"
          /\ UNCHANGED dev_pos
     ELSE /\ dev_pos' = [index \in Indices(numObjects) |->
                           updatePos(dt, dev_pos[index], dev_vel2[index])]
          /\ pc' = "swap"
          /\ UNCHANGED dev_pos_temp
  /\ UNCHANGED <<numObjects, dev_vel1, dev_vel2, dev_vel1_temp, tables, grid,
                 strategy, dt, allocated, steps, everOccupied>>

\* dev_vel1 = dev_vel2 in place of the swap: both pointers name one buffer
SwapVelocityBuffersAssign ==
  /\ pc = "swap"
  /\ owner' = [owner EXCEPT !.dev_vel1 = owner.dev_vel2]
  /\ UNCHANGED atEntry
  /\ UNCHANGED heap
  /\ UNCHANGED threads
  /\ UNCHANGED stages
  /\ UNCHANGED errs
  /\ UNCHANGED produced
  /\ ptr' = [ptr EXCEPT !.dev_vel1 = ptr.dev_vel2]
  /\ dev_vel1' = dev_vel2
  /\ pc' = "idle"
  /\ steps' = steps + 1
  /\ UNCHANGED <<numObjects, dev_pos, dev_vel2, dev_pos_temp, dev_vel1_temp,
                 tables, grid, strategy, dt, allocated, everOccupied>>

\* std::swap(dev_vel1, dev_vel2)
SwapVelocityBuffers ==
  /\ pc = "swap"
  /\ owner' = [owner EXCEPT !.dev_vel1 = owner.dev_vel2,
                        !.dev_vel2 = owner.dev_vel1]
  /\ UNCHANGED atEntry
  /\ UNCHANGED heap
  /\ UNCHANGED threads
  /\ UNCHANGED stages
  /\ UNCHANGED errs
  /\ UNCHANGED produced
  /\ ptr' = [ptr EXCEPT !.dev_vel1 = ptr.dev_vel2, !.dev_vel2 = ptr.dev_vel1]
  /\ dev_vel1' = dev_vel2
  /\ dev_vel2' = dev_vel1
  /\ pc' = "idle"
  /\ steps' = steps + 1
  /\ UNCHANGED <<numObjects, dev_pos, dev_pos_temp, dev_vel1_temp, tables, grid,
                 strategy, dt, allocated, everOccupied>>

\* cudaMemcpy(dev_pos, dev_pos_temp, ...)
MemcpyPos ==
  /\ pc = "memcpyPos"
  /\ owner' = [owner EXCEPT !.dev_pos = owner.dev_pos_temp]
  /\ UNCHANGED atEntry
  /\ stores({"dev_pos"})
  /\ UNCHANGED threads
  /\ UNCHANGED stages
  /\ UNCHANGED errs
  /\ UNCHANGED <<ptr, produced>>
  /\ dev_pos' = dev_pos_temp
  /\ pc' = "memcpyVel"
  /\ UNCHANGED <<numObjects, dev_vel1, dev_vel2, dev_pos_temp, dev_vel1_temp,
                 tables, grid, strategy, dt, allocated, steps, everOccupied>>

\* the copy taken from dev_vel1_temp, the reordered input velocities
MemcpyVelFromTemp ==
  /\ pc = "memcpyVel"
  /\ owner' = [owner EXCEPT !.dev_vel1 = owner.dev_vel1_temp]
  /\ UNCHANGED atEntry
  /\ stores({"dev_vel1"})
  /\ UNCHANGED threads
  /\ UNCHANGED stages
  /\ UNCHANGED errs
  /\ UNCHANGED <<ptr, produced>>
  /\ dev_vel1' = dev_vel1_temp
  /\ pc' = "idle"
  /\ steps' = steps + 1
  /\ UNCHANGED <<numObjects, dev_pos, dev_vel2, dev_pos_temp, dev_vel1_temp,
                 tables, grid, strategy, dt, allocated, everOccupied>>

\* cudaMemcpy(dev_vel1, dev_vel2, ...)
MemcpyVel ==
  /\ pc = "memcpyVel"
  /\ owner' = [owner EXCEPT !.dev_vel1 = owner.dev_vel2]
  /\ UNCHANGED atEntry
  /\ stores({"dev_vel1"})
  /\ UNCHANGED threads
  /\ UNCHANGED stages
  /\ UNCHANGED errs
  /\ UNCHANGED <<ptr, produced>>
  /\ dev_vel1' = dev_vel2
  /\ pc' = "idle"
  /\ steps' = steps + 1
  /\ UNCHANGED <<numObjects, dev_pos, dev_vel2, dev_pos_temp, dev_vel1_temp,
                 tables, grid, strategy, dt, allocated, everOccupied>>

\* one call of endSimulation: cudaFree of each of the nine pointers, which
\* keep their values
endSimulationCall ==
  /\ UNCHANGED threads
  /\ UNCHANGED <<owner, atEntry>>
  /\ UNCHANGED stages
  /\ allocated' = {}
  /\ LET held == {ptr[b] : b \in Buffers}
     IN heap' = [heap EXCEPT !.live = @ \ held,
                             !.refreed = @ \cup ((held \ {0}) \ heap.live)]
  /\ UNCHANGED errs
  /\ UNCHANGED <<ptr, produced>>
  /\ pc' = "ended"
  /\ UNCHANGED <<numObjects, particles, tables, grid, strategy, dt, steps,
                 everOccupied>>

EndSimulation ==
  /\ pc = "idle"
  /\ endSimulationCall

Next ==
  \/ \E N \in -1 .. MaxN : \E ps \in PosSeeds : \E vs \in VelSeeds :
       InitSimulation(N, ps, vs)
  \/ \E d \in DtSet : StepSimulationNaive(d)
  \/ \E d \in DtSet : StepSimulationScatteredGrid(d)
  \/ \E d \in DtSet : StepSimulationCoherentGrid(d)
  \/ KernUpdateVelocityBruteForce
  \/ KernComputeIndices
  \/ SortByKey
  \/ ResetStart
  \/ ResetEnd
  \/ KernIdentifyCellStartEnd
  \/ KernReorderData
  \/ KernUpdateVelNeighborSearchScattered
  \/ KernUpdateVelNeighborSearchCoherent
  \/ KernUpdatePos
  \/ SwapVelocityBuffers
  \/ MemcpyPos
  \/ MemcpyVel
  \/ EndSimulation

Spec == Init /\ [][Next]_vars

(***************************************************************************)
(* Device failures.  Any cudaMalloc, kernel launch, sort or copy may fail; *)
(* the runtime records the failure and the next checkCUDAError, if there   *)
(* is one, prints its message and exits.                                   *)
(***************************************************************************)
\* the stages of a step whose launch is followed by checkCUDAErrorWithLine
CheckedStages == {"kernUpdateVelocityBruteForce", "kernComputeIndices",
                  "resetStart", "resetEnd", "kernIdentifyCellStartEnd",
                  "kernReorderData", "kernUpdateVelNeighborSearchScattered",
                  "kernUpdateVelNeighborSearchCoherent", "kernUpdatePos"}

\* what() of the exception thrust::sort_by_key throws on a device error; it
\* is caught nowhere, so the run terminates with it
sortException == "thrust::system::system_error"

\* initSimulation(N) in which the n-th cudaMalloc fails (out of memory)
CudaMallocFails(N, ps, vs, n) ==
  /\ pc = "boot"
  /\ UNCHANGED owner
  /\ UNCHANGED atEntry
  /\ UNCHANGED threads
  /\ UNCHANGED stages
  /\ N >= 1
  /\ numObjects' = N
  /\ lastError' = mallocOrder[n]
  /\ diagnostic' = messageOf[mallocOrder[n]]
  /\ pc' = "exit"
  /\ allocated' = {mallocOrder[m] : m \in 1 .. (n - 1)}
  /\ ptr' = pointersOf(ptr, heap.calls, n)
  /\ heap' = heapAfter(n, IF n > 3 THEN {allocation(heap.calls, ordinalOf("dev_pos"))} ELSE {})
  /\ UNCHANGED produced
  /\ IF n > 3
     THEN LET halfSideCount == halfSideCountParam
              sideCount == 2 * halfSideCount
              halfGridWidth == cellWidthParam * halfSideCount
          IN /\ dev_pos' = [i \in Indices(N) |-> RandomPos(ps, i)]
             /\ dev_vel1' = [i \in Indices(N) |-> GarbageVel(vs, i)]
             /\ dev_vel2' = [i \in Indices(N) |-> Zero3]
             /\ gridCellWidth' = cellWidthParam
             /\ gridSideCount' = sideCount
             /\ gridCellCount' = sideCount * sideCount * sideCount
             /\ gridInverseCellWidth' = [num |-> Unit, den |-> cellWidthParam]
             /\ gridMinimum' = Vec(gridMinimum.x - halfGridWidth,
                                   gridMinimum.y - halfGridWidth,
                                   gridMinimum.z - halfGridWidth)
     ELSE UNCHANGED <<dev_pos, dev_vel1, dev_vel2, grid>>
  /\ UNCHANGED <<dev_pos_temp, dev_vel1_temp, tables, strategy, dt, steps,
                 everOccupied>>

\* a kernel launch of a step fails: the checkCUDAError after it exits
KernelLaunchFails ==
  /\ pc \in CheckedStages
  /\ UNCHANGED owner
  /\ UNCHANGED atEntry
  /\ UNCHANGED heap
  /\ UNCHANGED threads
  /\ UNCHANGED stages
  /\ lastError = cudaSuccess
  /\ lastError' = pc
  /\ diagnostic' = messageOf[pc]
  /\ pc' = "exit"
  /\ UNCHANGED <<numObjects, particles, tables, grid, strategy, dt, allocated,
                 steps, everOccupied, ptr, produced>>

\* a failure recorded by an earlier, unchecked operation is found by the
\* checkCUDAError after the next kernel launch, which prints that launch's
\* message
ErrorFoundLate ==
  /\ pc \in CheckedStages
  /\ UNCHANGED owner
  /\ UNCHANGED atEntry
  /\ UNCHANGED heap
  /\ UNCHANGED threads
  /\ UNCHANGED stages
  /\ lastError # cudaSuccess
  /\ diagnostic' = messageOf[pc]
  /\ pc' = "exit"
  /\ UNCHANGED <<numObjects, particles, tables, grid, strategy, dt, allocated,
                 steps, everOccupied, lastError, ptr, produced>>

\* thrust::sort_by_key throws
SortByKeyThrows ==
  /\ pc = "sort_by_key"
  /\ UNCHANGED owner
  /\ UNCHANGED atEntry
  /\ UNCHANGED heap
  /\ UNCHANGED threads
  /\ UNCHANGED stages
  /\ lastError' = "sort_by_key"
  /\ diagnostic' = sortException
  /\ pc' = "exit"
  /\ UNCHANGED <<numObjects, particles, tables, grid, strategy, dt, allocated,
                 steps, everOccupied, ptr, produced>>

\* cudaMemcpy(dev_pos, dev_pos_temp, ...) returns an error; the return value
\* is dropped and no checkCUDAError follows
MemcpyPosFails ==
  /\ pc = "memcpyPos"
  /\ UNCHANGED owner
  /\ UNCHANGED atEntry
  /\ UNCHANGED heap
  /\ UNCHANGED threads
  /\ UNCHANGED stages
  /\ lastError' = "memcpyPos"
  /\ pc' = "memcpyVel"
  /\ UNCHANGED <<numObjects, particles, tables, grid, strategy, dt, allocated,
                 steps, everOccupied, diagnostic, ptr, produced>>

\* cudaMemcpy(dev_vel1, dev_vel2, ...) returns an error; stepSimulationCoherentGrid
\* returns normally
MemcpyVelFails ==
  /\ pc = "memcpyVel"
  /\ UNCHANGED owner
  /\ UNCHANGED atEntry
  /\ UNCHANGED heap
  /\ UNCHANGED threads
  /\ UNCHANGED stages
  /\ lastError' = "memcpyVel"
  /\ pc' = "idle"
  /\ steps' = steps + 1
  /\ UNCHANGED <<numObjects, particles, tables, grid, strategy, dt, allocated,
                 everOccupied, diagnostic, ptr, produced>>

FaultNext ==
  \/ Next
  \/ \E N \in 1 .. MaxN : \E ps \in PosSeeds : \E vs \in VelSeeds :
       \E n \in 1 .. Len(mallocOrder) : CudaMallocFails(N, ps, vs, n)
  \/ KernelLaunchFails
  \/ ErrorFoundLate
  \/ SortByKeyThrows
  \/ MemcpyPosFails
  \/ MemcpyVelFails

FaultSpec == Init /\ [][FaultNext]_vars

(***************************************************************************)
(* The kernels thread by thread.  The threads of one launch run in any     *)
(* order; a thread with index >= N returns at once, so a launch has the    *)
(* threads 0 .. N-1.  A thread reads the device buffers as they are when   *)
(* it runs.  The host issues the next stage when all threads have          *)
(* finished.                                                               *)
(***************************************************************************)
\* the device buffers
Snapshot ==
  [dev_pos |-> dev_pos, dev_vel1 |-> dev_vel1, dev_vel2 |-> dev_vel2,
   dev_particleArrayIndices |-> dev_particleArrayIndices,
   dev_particleGridIndices |-> dev_particleGridIndices,
   dev_gridCellStartIndices |-> dev_gridCellStartIndices,
   dev_gridCellEndIndices |-> dev_gridCellEndIndices,
   dev_pos_temp |-> dev_pos_temp, dev_vel1_temp |-> dev_vel1_temp]

\* thread index of the kernel of stage s is still to run:
\*   int index = threadIdx.x + (blockIdx.x * blockDim.x); if (index >= N) return;
threadRuns(s, index) ==
  /\ pc = s
  /\ lastError = cudaSuccess
  /\ index \in Indices(numObjects) \ done

\* thread index is the last of its launch to finish
lastThread(index) == done \cup {index} = Indices(numObjects)

\* the bookkeeping of a thread's step; next is the stage the host issues
\* after this kernel
threadEnds(index, next) ==
  /\ done' = IF lastThread(index) THEN {} ELSE done \cup {index}
  /\ pc' = IF lastThread(index) THEN next ELSE pc
  /\ stages' = IF lastThread(index) THEN Append(stages, pc) ELSE stages
  /\ atLaunch' = IF done = {} THEN Snapshot ELSE atLaunch
  /\ UNCHANGED <<errs, ptr, numObjects, grid, strategy, dt, allocated, steps,
                 atEntry>>

\* kernUpdateVelocityBruteForce storing into vel1, the buffer it reads
ThreadKernUpdateVelocityInPlace(index) ==
  /\ threadRuns("kernUpdateVelocityBruteForce", index)
  /\ owner' = [owner EXCEPT !.dev_vel1[index] = owner.dev_pos[index]]
  /\ IF lastThread(index) THEN stores({"dev_vel1"}) ELSE UNCHANGED heap
  /\ dev_vel1' = [dev_vel1 EXCEPT ![index] =
                    updateVelocityBruteForce(numObjects, index, dev_pos, dev_vel1)]
  /\ produced' = IF lastThread(index) THEN dev_vel1' ELSE produced
  /\ threadEnds(index, "kernUpdatePos")
  /\ UNCHANGED <<dev_pos, dev_vel2, dev_pos_temp, dev_vel1_temp, tables,
                 everOccupied, writers>>

ThreadKernUpdateVelocityBruteForce(index) ==
  /\ threadRuns("kernUpdateVelocityBruteForce", index)
  /\ owner' = [owner EXCEPT !.dev_vel2[index] = owner.dev_pos[index]]
  /\ IF lastThread(index) THEN stores({"dev_vel2"}) ELSE UNCHANGED heap
  /\ dev_vel2' = [dev_vel2 EXCEPT ![index] =
                    updateVelocityBruteForce(numObjects, index, dev_pos, dev_vel1)]
  /\ produced' = IF lastThread(index) THEN dev_vel2' ELSE produced
  /\ threadEnds(index, "kernUpdatePos")
  /\ UNCHANGED <<dev_pos, dev_vel1, dev_pos_temp, dev_vel1_temp, tables,
                 everOccupied, writers>>

ThreadKernComputeIndices(index) ==
  /\ threadRuns("kernComputeIndices", index)
  /\ UNCHANGED owner
  /\ IF lastThread(index) THEN stores({"dev_particleArrayIndices", "dev_particleGridIndices"}) ELSE UNCHANGED heap
  /\ dev_particleArrayIndices' = [dev_particleArrayIndices EXCEPT ![index] = index]
  /\ dev_particleGridIndices' =
       [dev_particleGridIndices EXCEPT ![index] =
          computeGridIndex(gridSideCount, gridMinimum, gridInverseCellWidth,
                           dev_pos[index])]
  /\ threadEnds(index, "sort_by_key")
  /\ UNCHANGED <<particles, dev_gridCellStartIndices, dev_gridCellEndIndices,
                 produced, everOccupied, writers>>

ThreadKernIdentifyCellStartEnd(index) ==
  /\ threadRuns("kernIdentifyCellStartEnd", index)
  /\ UNCHANGED owner
  /\ UNCHANGED heap
  /\ LET gridIndex == dev_particleGridIndices[index]
         t == identifyThread(index, numObjects, dev_particleGridIndices,
                [start |-> dev_gridCellStartIndices,
                 end |-> dev_gridCellEndIndices])
         before == IF done = {} THEN {} ELSE writers
     IN /\ dev_gridCellStartIndices' = t.start
        /\ dev_gridCellEndIndices' = t.end
        /\ writers' = before
             \cup (IF t.start # dev_gridCellStartIndices
                   THEN {<<"start", gridIndex, index>>} ELSE {})
             \cup (IF t.end # dev_gridCellEndIndices
                   THEN {<<"end", gridIndex, index>>} ELSE {})
  /\ everOccupied' = IF lastThread(index)
                     THEN everOccupied \cup
                            {dev_particleGridIndices[k] : k \in Indices(numObjects)}
                     ELSE everOccupied
  /\ threadEnds(index, IF strategy = "CoherentGrid" THEN "kernReorderData"
                       ELSE "kernUpdateVelNeighborSearchScattered")
  /\ UNCHANGED <<particles, dev_particleArrayIndices, dev_particleGridIndices,
                 produced>>

ThreadKernReorderData(index) ==
  /\ threadRuns("kernReorderData", index)
  /\ owner' = [owner EXCEPT !.dev_pos_temp[index] = owner.dev_pos[dev_particleArrayIndices[index]],
                        !.dev_vel1_temp[index] = owner.dev_vel1[dev_particleArrayIndices[index]]]
  /\ IF lastThread(index) THEN stores({"dev_pos_temp", "dev_vel1_temp"}) ELSE UNCHANGED heap
  /\ dev_pos_temp' = [dev_pos_temp EXCEPT ![index] =
                        reorderData(index, dev_pos, dev_particleArrayIndices)]
  /\ dev_vel1_temp' = [dev_vel1_temp EXCEPT ![index] =
                         reorderData(index, dev_vel1, dev_particleArrayIndices)]
  /\ threadEnds(index, "kernUpdateVelNeighborSearchCoherent")
  /\ UNCHANGED <<dev_pos, dev_vel1, dev_vel2, tables, produced, everOccupied,
                 writers>>

ThreadKernUpdateVelNeighborSearchScattered(index) ==
  /\ threadRuns("kernUpdateVelNeighborSearchScattered", index)
  /\ owner' = [owner EXCEPT !.dev_vel2[index] = owner.dev_pos[index]]
  /\ IF lastThread(index) THEN stores({"dev_vel2"}) ELSE UNCHANGED heap
  /\ dev_vel2' = [dev_vel2 EXCEPT ![index] =
                    updateVelScattered(index, gridSideCount, gridMinimum,
                                       gridInverseCellWidth,
                                       dev_gridCellStartIndices,
                                       dev_gridCellEndIndices,
                                       dev_particleArrayIndices, dev_pos, dev_vel1)]
  /\ produced' = IF lastThread(index) THEN dev_vel2' ELSE produced
  /\ threadEnds(index, "kernUpdatePos")
  /\ UNCHANGED <<dev_pos, dev_vel1, dev_pos_temp, dev_vel1_temp, tables,
                 everOccupied, writers>>

ThreadKernUpdateVelNeighborSearchCoherent(index) ==
  /\ threadRuns("kernUpdateVelNeighborSearchCoherent", index)
  /\ owner' = [owner EXCEPT !.dev_vel2[index] = owner.dev_pos_temp[index]]
  /\ IF lastThread(index) THEN stores({"dev_vel2"}) ELSE UNCHANGED heap
  /\ dev_vel2' = [dev_vel2 EXCEPT ![index] =
                    updateVelCoherent(index, gridSideCount, gridMinimum,
                                      gridInverseCellWidth,
                                      dev_gridCellStartIndices,
                                      dev_gridCellEndIndices,
                                      dev_pos_temp, dev_vel1_temp)]
  /\ produced' = IF lastThread(index) THEN dev_vel2' ELSE produced
  /\ threadEnds(index, "kernUpdatePos")
  /\ UNCHANGED <<dev_pos, dev_vel1, dev_pos_temp, dev_vel1_temp, tables,
                 everOccupied, writers>>

ThreadKernUpdatePos(index) ==
  /\ threadRuns("kernUpdatePos", index)
  /\ UNCHANGED owner
  /\ IF lastThread(index) THEN stores({IF strategy = "CoherentGrid" THEN "dev_pos_temp" ELSE "dev_pos"}) ELSE UNCHANGED heap
  /\ IF strategy = "CoherentGrid"
     THEN /\ dev_pos_temp' = [dev_pos_temp EXCEPT ![index] =
                                updatePos(dt, dev_pos_temp[index], dev_vel2[index])]
          /\ UNCHANGED dev_pos
     ELSE /\ dev_pos' = [dev_pos EXCEPT ![index] =
                           updatePos(dt, dev_pos[index], dev_vel2[index])]
          /\ UNCHANGED dev_pos_temp
  /\ threadEnds(index, IF strategy = "CoherentGrid" THEN "memcpyPos" ELSE "swap")
  /\ UNCHANGED <<dev_vel1, dev_vel2, dev_vel1_temp, tables, produced,
                 everOccupied, writers>>

\* the uninitialised velocities and the timestep taken for the
\* thread-by-thread runs
ThreadVelSeeds == {1}

ThreadDtSet == {Unit}

ThreadNext ==
  \/ \E N \in 1 .. MaxN : \E ps \in PosSeeds : \E vs \in ThreadVelSeeds :
       InitSimulation(N, ps, vs)
  \/ \E d \in ThreadDtSet : StepSimulationNaive(d)
  \/ \E d \in ThreadDtSet : StepSimulationScatteredGrid(d)
  \/ \E d \in ThreadDtSet : StepSimulationCoherentGrid(d)
  \/ \E index \in Indices(MaxN) : ThreadKernUpdateVelocityBruteForce(index)
  \/ \E index \in Indices(MaxN) : ThreadKernComputeIndices(index)
  \/ SortByKey
  \/ ResetStart
  \/ ResetEnd
  \/ \E index \in Indices(MaxN) : ThreadKernIdentifyCellStartEnd(index)
  \/ \E index \in Indices(MaxN) : ThreadKernReorderData(index)
  \/ \E index \in Indices(MaxN) : ThreadKernUpdateVelNeighborSearchScattered(index)
  \/ \E index \in Indices(MaxN) : ThreadKernUpdateVelNeighborSearchCoherent(index)
  \/ \E index \in Indices(MaxN) : ThreadKernUpdatePos(index)
  \/ SwapVelocityBuffers
  \/ MemcpyPos
  \/ MemcpyVel
  \/ EndSimulation

ThreadSpec == Init /\ [][ThreadNext]_vars

(***************************************************************************)
(* kernComputeIndices on arbitrary positions: one launch on the grid of    *)
(* initSimulation with every agent at any of the probe positions, inside   *)
(* the grid, on its corners and outside it.                                *)
(***************************************************************************)
\* half the side of the grid: gridCellWidth * halfSideCount
halfGridWidthParam == cellWidthParam * halfSideCountParam

ProbeList ==
  << Vec(5 * Unit, -95 * Unit, 99 * Unit + (Unit \div 2)),
     Vec(-halfGridWidthParam, -halfGridWidthParam, -halfGridWidthParam),
     Vec(halfGridWidthParam, halfGridWidthParam, halfGridWidthParam),
     Vec(-halfGridWidthParam - (Unit \div 2), 0, halfGridWidthParam - 1),
     Vec(-halfGridWidthParam - 15 * Unit, halfGridWidthParam + 5 * Unit, 5 * Unit),
     Vec(130 * Unit, -115 * Unit, 0),
     Vec(-halfGridWidthParam - 1, -halfGridWidthParam + 1, 2 * halfGridWidthParam) >>

IndexInit ==
  \E N \in 1 .. MaxN : \E probe \in [Indices(N) -> 1 .. Len(ProbeList)] :
    /\ numObjects = N
    /\ dev_pos = [i \in Indices(N) |-> ProbeList[probe[i]]]
    /\ dev_vel1 = [i \in Indices(N) |-> Zero3]
    /\ dev_vel2 = [i \in Indices(N) |-> Zero3]
    /\ dev_particleArrayIndices = [i \in Indices(N) |-> 0]
    /\ dev_particleGridIndices = [i \in Indices(N) |-> 0]
    /\ gridCellWidth = cellWidthParam
    /\ gridSideCount = 2 * halfSideCountParam
    /\ gridCellCount = 8 * halfSideCountParam * halfSideCountParam * halfSideCountParam
    /\ gridInverseCellWidth = [num |-> Unit, den |-> cellWidthParam]
    /\ gridMinimum = Vec(-halfGridWidthParam, -halfGridWidthParam, -halfGridWidthParam)
    /\ dev_gridCellStartIndices = [c \in Indices(gridCellCount) |-> 0]
    /\ dev_gridCellEndIndices = [c \in Indices(gridCellCount) |-> 0]
    /\ dev_pos_temp = [i \in Indices(N) |-> Zero3]
    /\ dev_vel1_temp = [i \in Indices(N) |-> Zero3]
    /\ pc = "kernComputeIndices"
    /\ strategy = "ScatteredGrid"
    /\ dt = Unit
    /\ allocated = Buffers
    /\ steps = 0
    /\ everOccupied = {}
    /\ lastError = cudaSuccess
    /\ diagnostic = ""
    /\ ptr = pointersBefore(Len(mallocOrder) + 1)
    /\ produced = dev_vel1
    /\ stages = << >>
    /\ done = {}
    /\ atLaunch = << >>
    /\ writers = {}
    /\ heap = [calls |-> 1,
               live |-> {allocation(0, k) : k \in 1 .. Len(mallocOrder)},
               refreed |-> {},
               written |-> {allocation(0, ordinalOf("dev_pos"))}]
    /\ owner = [b \in ParticleBuffers |->
                  [i \in Indices(numObjects) |->
                     IF b \in {"dev_pos", "dev_vel1"} THEN i ELSE -1]]
    /\ atEntry = [pos |-> dev_pos, owner |-> owner.dev_pos]

IndexSpec == IndexInit /\ [][KernComputeIndices]_vars

(***************************************************************************)
(* Repeated calls.  kernel.cu exports initSimulation, the three            *)
(* stepSimulation* and endSimulation, and none of them looks at what was   *)
(* called before it: the caller may call initSimulation again, with or     *)
(* without endSimulation in between, and endSimulation before              *)
(* initSimulation or twice.  kernGenerateRandomPosArray is launched with   *)
(* the constant time 1, so every call generates the same positions.        *)
(***************************************************************************)
InitSimulationAgain(N, ps, vs) ==
  /\ pc \in {"idle", "ended"}
  /\ heap.calls < MaxCalls
  /\ initSimulationCall(N, ps, vs)

EndSimulationAgain ==
  /\ pc \in {"boot", "ended"}
  /\ endSimulationCall

\* the positions, the uninitialised velocities and the timestep taken for
\* the runs with repeated calls
LifePosSeeds == {3}

LifeVelSeeds == {1}

LifeDtSet == {Unit}

LifeNext ==
  \/ \E N \in 1 .. MaxN : \E ps \in LifePosSeeds : \E vs \in LifeVelSeeds :
       InitSimulation(N, ps, vs)
  \/ \E N \in 1 .. MaxN : \E ps \in LifePosSeeds : \E vs \in LifeVelSeeds :
       InitSimulationAgain(N, ps, vs)
  \/ \E d \in LifeDtSet : StepSimulationNaive(d)
  \/ \E d \in LifeDtSet : StepSimulationScatteredGrid(d)
  \/ \E d \in LifeDtSet : StepSimulationCoherentGrid(d)
  \/ KernUpdateVelocityBruteForce
  \/ KernComputeIndices
  \/ SortByKey
  \/ ResetStart
  \/ ResetEnd
  \/ KernIdentifyCellStartEnd
  \/ KernReorderData
  \/ KernUpdateVelNeighborSearchScattered
  \/ KernUpdateVelNeighborSearchCoherent
  \/ KernUpdatePos
  \/ SwapVelocityBuffers
  \/ MemcpyPos
  \/ MemcpyVel
  \/ EndSimulation
  \/ EndSimulationAgain

LifeSpec == Init /\ [][LifeNext]_vars

(***************************************************************************)
(* Properties                                                              *)
(***************************************************************************)
Agents == Indices(numObjects)

Cells == Indices(gridCellCount)

\* the cells that hold an agent according to dev_particleGridIndices
OccupiedCells == {dev_particleGridIndices[k] : k \in Agents}

\* the host has built the range table of the current grid step
TableBuilt == pc \in {"kernReorderData", "kernUpdateVelNeighborSearchScattered",
                      "kernUpdateVelNeighborSearchCoherent"}

\* a table of the grid's size holding the sentinel in every cell
SentinelTable ==
  [c \in Indices(8 * halfSideCountParam * halfSideCountParam * halfSideCountParam)
     |-> -1]

\* table t with the sentinel written over the cells of sorted positions k..N-1
RECURSIVE clearOccupied(_, _)
clearOccupied(k, t) ==
  IF k >= numObjects THEN t
  ELSE clearOccupied(k + 1, [t EXCEPT ![dev_particleGridIndices[k]] = -1])

\* no cell without an agent has a start or an end
OnlyOccupiedRanged ==
  /\ clearOccupied(0, dev_gridCellStartIndices) = SentinelTable
  /\ clearOccupied(0, dev_gridCellEndIndices) = SentinelTable

\* C1: for the same positions, velocities and dt the scattered-grid and the
\* coherent-grid velocity update store, for every agent, the velocity the
\* brute-force update computes from the step's input (the coherent step
\* stores agent dev_particleArrayIndices[k] in slot k).
C1_StrategiesAgree ==
  /\ (pc = "kernUpdatePos" /\ strategy = "ScatteredGrid") =>
       \A i \in Agents :
         dev_vel2[i] = updateVelocityBruteForce(numObjects, i, dev_pos, dev_vel1)
  /\ (pc = "kernUpdatePos" /\ strategy = "CoherentGrid") =>
       \A k \in Agents :
         dev_vel2[k] = updateVelocityBruteForce(numObjects,
                         dev_particleArrayIndices[k], dev_pos, dev_vel1)

\* a coherent step whose sort moved an agent and in which two agents of
\* different cells are within rule range of each other
C1_Witness ==
  /\ pc = "kernUpdatePos"
  /\ strategy = "CoherentGrid"
  /\ \E k \in Agents : dev_particleArrayIndices[k] # k
  /\ \E a, b \in Agents :
       /\ dev_particleGridIndices[a] # dev_particleGridIndices[b]
       /\ Distance(dev_pos_temp[a], dev_pos_temp[b]) < rule1Distance

C3_EmptyCells ==
  /\ TableBuilt =>
       /\ \A c \in OccupiedCells :
            ~ (dev_gridCellStartIndices[c] = -1 /\ dev_gridCellEndIndices[c] = -1)
       /\ OnlyOccupiedRanged
  /\ pc = "kernUpdateVelNeighborSearchScattered" =>
       \A i \in Agents :
         LET cells == neighborCells(gridSideCount, gridMinimum,
                                    gridInverseCellWidth, dev_pos[i])
         IN \A n \in 1 .. Len(cells) :
              cells[n] \notin OccupiedCells =>
                computeVelScattered(i, cells[n], dev_gridCellStartIndices,
                                    dev_gridCellEndIndices, dev_particleArrayIndices,
                                    dev_pos, dev_vel1, NoNeighbors) = NoNeighbors
  /\ pc = "kernUpdateVelNeighborSearchCoherent" =>
       \A i \in Agents :
         LET cells == neighborCells(gridSideCount, gridMinimum,
                                    gridInverseCellWidth, dev_pos_temp[i])
         IN \A n \in 1 .. Len(cells) :
              cells[n] \notin OccupiedCells =>
                computeVelCoherent(i, cells[n], dev_gridCellStartIndices,
                                   dev_gridCellEndIndices, dev_pos_temp,
                                   dev_vel1_temp, NoNeighbors) = NoNeighbors

\* a neighbour query about to visit a cell that held an agent in an earlier
\* step and holds none now
C3_Witness ==
  /\ pc = "kernUpdateVelNeighborSearchScattered"
  /\ \E i \in Agents :
       LET cells == neighborCells(gridSideCount, gridMinimum,
                                  gridInverseCellWidth, dev_pos[i])
       IN \E n \in 1 .. Len(cells) :
            /\ cells[n] \in everOccupied
            /\ cells[n] \notin OccupiedCells
            /\ dev_gridCellStartIndices[cells[n]] = -1

\* C4: after kernReorderData slot k of the reordered position and velocity
\* holds the canonical position and velocity of agent arrayIndex[k].
C4_Reorder ==
  pc = "kernUpdateVelNeighborSearchCoherent" =>
    \A k \in Agents :
      /\ dev_pos_temp[k] = dev_pos[dev_particleArrayIndices[k]]
      /\ dev_vel1_temp[k] = dev_vel1[dev_particleArrayIndices[k]]

\* a reorder that moved an agent to another slot
C4_Witness ==
  /\ pc = "kernUpdateVelNeighborSearchCoherent"
  /\ \E k \in Agents :
       /\ dev_particleArrayIndices[k] # k
       /\ dev_pos_temp[k] # dev_pos[k]
       /\ dev_vel1_temp[k] # dev_vel1[k]

InBounds(p) ==
  /\ -scene_scale <= p.x /\ p.x <= scene_scale
  /\ -scene_scale <= p.y /\ p.y <= scene_scale
  /\ -scene_scale <= p.z /\ p.z <= scene_scale

\* C6: after kernUpdatePos, in every step, every coordinate of every
\* position lies in [-scene_scale, scene_scale].
C6_WrapBounds ==
  /\ pc = "swap" => \A i \in Agents : InBounds(dev_pos[i])
  /\ pc = "memcpyPos" => \A i \in Agents : InBounds(dev_pos_temp[i])
  /\ (pc = "idle" /\ steps >= 1) => \A i \in Agents : InBounds(dev_pos[i])

\* an agent that moved in +x and was wrapped to the negative bound
C6_Witness ==
  /\ pc = "swap"
  /\ \E i \in Agents : dev_pos[i].x = -scene_scale /\ dev_vel2[i].x > 0

\* the accumulators of agent slot i when the velocity kernel of the running
\* strategy is about to be launched
VelocityPending == pc \in {"kernUpdateVelocityBruteForce",
                           "kernUpdateVelNeighborSearchScattered",
                           "kernUpdateVelNeighborSearchCoherent"}

\* the position and velocity arrays the pending velocity kernel reads
InputPos == IF strategy = "CoherentGrid" THEN dev_pos_temp ELSE dev_pos

InputVel == IF strategy = "CoherentGrid" THEN dev_vel1_temp ELSE dev_vel1

Accumulated(i) ==
  IF strategy = "Naive"
  THEN bruteForceLoop(0, numObjects, i, dev_pos, dev_vel1, NoNeighbors)
  ELSE IF strategy = "ScatteredGrid"
  THEN searchScattered(i, gridSideCount, gridMinimum, gridInverseCellWidth,
                       dev_gridCellStartIndices, dev_gridCellEndIndices,
                       dev_particleArrayIndices, dev_pos, dev_vel1)
  ELSE searchCoherent(i, gridSideCount, gridMinimum, gridInverseCellWidth,
                      dev_gridCellStartIndices, dev_gridCellEndIndices,
                      dev_pos_temp, dev_vel1_temp)

\* what the pending velocity kernel adds to the input velocity of slot i
\* before the speed clamp
RuleContribution(i) == ruleSum(Accumulated(i), InputPos[i])

\* no other agent lies within any rule radius of slot i
OutOfRange(i, j) ==
  LET d == Distance(InputPos[i], InputPos[j])
  IN d >= rule1Distance /\ d >= rule2Distance /\ d >= rule3Distance

Isolated(i) == \A j \in Agents \ {i} : OutOfRange(i, j)

\* C7: an agent with no other agent within any rule radius receives zero
\* contribution from the three rules in every strategy (its velocity before
\* the clamp is its input velocity).
C7_IsolatedNoContribution ==
  VelocityPending =>
    \A i \in Agents :
      Isolated(i) => VAdd(InputVel[i], RuleContribution(i)) = InputVel[i]

\* C8 as stated: two agents at the origin, no other agent in range, each get
\* a non-zero rule 2 contribution c * rule2Scale.
C8_ColocatedSeparate ==
  VelocityPending =>
    \A i, j \in Agents :
      (/\ i # j
       /\ InputPos[i] = Zero3
       /\ InputPos[j] = Zero3
       /\ \A k \in Agents \ {i, j} : OutOfRange(i, k))
      => VScale(Accumulated(i).c, rule2Scale) # Zero3

\* C8 amended: of two agents closer than rule2Distance with no other agent in
\* range, each accumulates c = selfPos - otherPos for rule 2 in every
\* strategy: the zero vector when they are at the same point, a non-zero
\* vector when they are at distinct points.
C8_SeparationIsOffset ==
  VelocityPending =>
    \A i, j \in Agents :
      (/\ i # j
       /\ Distance(InputPos[i], InputPos[j]) < rule2Distance
       /\ \A k \in Agents \ {i, j} : OutOfRange(i, k))
      => /\ Accumulated(i).c = VSub(InputPos[i], InputPos[j])
         /\ (Accumulated(i).c = Zero3) <=> (InputPos[i] = InputPos[j])

\* a grid query for one of two agents at the origin, every other agent out
\* of range
C8_Witness ==
  /\ pc = "kernUpdateVelNeighborSearchScattered"
  /\ \E i, j \in Agents :
       /\ i # j
       /\ dev_pos[i] = Zero3
       /\ dev_pos[j] = Zero3
       /\ \A k \in Agents \ {i, j} : OutOfRange(i, k)

\* C9: with N = 0 or N = 1, initSimulation and a step of any strategy do not
\* reach the error exit and no agent receives a rule contribution.
C9_TinyFlocks ==
  (pc # "boot" /\ numObjects \in {0, 1}) =>
    /\ pc # "exit"
    /\ VelocityPending => \A i \in Agents : RuleContribution(i) = Zero3

\* C10: initSimulation with N <= 0 ends rejected with no buffer allocated.
C10_RejectedBeforeAllocation ==
  (pc # "boot" /\ numObjects <= 0) => (pc = "exit" /\ allocated = {})

\* the diagnostic names the device operation op
Names(message, op) ==
  \/ op \in DOMAIN messageOf /\ message = messageOf[op]
  \/ op = "sort_by_key" /\ message = sortException

\* C11: a failed device operation ends the run with a diagnostic naming it
\* before any later operation of the same call executes, so a recorded
\* failure is never present in a run that has not exited.
C11_FailuresDetected ==
  lastError # cudaSuccess => (pc = "exit" /\ Names(diagnostic, lastError))

\* the position of slot i and the cell recorded for it when the neighbour
\* query of a grid step is about to run
QueryPending == pc \in {"kernUpdateVelNeighborSearchScattered",
                        "kernUpdateVelNeighborSearchCoherent"}

\* the cell kernComputeIndices assigns to position p in the current grid
CellOf(p) == computeGridIndex(gridSideCount, gridMinimum, gridInverseCellWidth, p)

\* the set of cells the query of an agent at position p visits
VisitedCells(p) ==
  LET cells == neighborCells(gridSideCount, gridMinimum, gridInverseCellWidth, p)
  IN {cells[n] : n \in 1 .. Len(cells)}

\* C12: with cell width twice the largest rule radius, the biased cell
\* selection of the grid query visits, for every agent i, the cell of every
\* agent j closer to i than the largest rule radius.
C12_BiasedCellsCover ==
  QueryPending =>
    /\ gridCellWidth = 2 * maxRuleDistance
    /\ \A i, j \in Agents :
         Distance(InputPos[i], InputPos[j]) < maxRuleDistance
           => CellOf(InputPos[j]) \in VisitedCells(InputPos[i])

\* a query for an agent with a neighbour in range in the cell below it on
\* one axis and another in the cell above it on one axis
C12_Witness ==
  /\ QueryPending
  /\ \E i, j \in Agents :
       /\ Distance(InputPos[i], InputPos[j]) < maxRuleDistance
       /\ CellOf(InputPos[j]) < CellOf(InputPos[i])
  /\ \E i, j \in Agents :
       /\ Distance(InputPos[i], InputPos[j]) < maxRuleDistance
       /\ CellOf(InputPos[j]) > CellOf(InputPos[i])

\* C13: the velocity kernel of every step reads through a pointer that names
\* another allocation than the pointer it writes through, and what it reads
\* is the velocity array the simulation held after the previous step (after
\* initSimulation for the first step), slot k of the coherent step holding
\* the velocity of agent dev_particleArrayIndices[k].
C13_PingPong ==
  /\ pc \in {"kernUpdateVelocityBruteForce", "kernUpdateVelNeighborSearchScattered"} =>
       /\ ptr.dev_vel1 # ptr.dev_vel2
       /\ dev_vel1 = produced
  /\ pc = "kernUpdateVelNeighborSearchCoherent" =>
       /\ ptr.dev_vel1_temp # ptr.dev_vel2
       /\ \A k \in Agents : dev_vel1_temp[k] = produced[dev_particleArrayIndices[k]]

\* the velocity kernel of a later step, after a swap, about to overwrite the
\* buffer that holds the velocities of two steps ago
C13_Witness ==
  /\ pc = "kernUpdateVelNeighborSearchScattered"
  /\ steps >= 1
  /\ ptr.dev_vel1 = pointersBefore(Len(mallocOrder) + 1).dev_vel2
  /\ dev_vel2 # produced

\* the stages of a grid step in the order the claim gives them
GridOrder(s) ==
  IF s = "CoherentGrid"
  THEN << "kernComputeIndices", "sort_by_key", "resetStart", "resetEnd",
          "kernIdentifyCellStartEnd", "kernReorderData",
          "kernUpdateVelNeighborSearchCoherent", "kernUpdatePos" >>
  ELSE << "kernComputeIndices", "sort_by_key", "resetStart", "resetEnd",
          "kernIdentifyCellStartEnd", "kernUpdateVelNeighborSearchScattered",
          "kernUpdatePos" >>

GridStrategy == strategy \in {"ScatteredGrid", "CoherentGrid"}

\* the host is inside a step, about to issue stage pc
InStage == pc \in {"kernComputeIndices", "sort_by_key", "resetStart", "resetEnd",
                   "kernIdentifyCellStartEnd", "kernReorderData",
                   "kernUpdateVelNeighborSearchScattered",
                   "kernUpdateVelNeighborSearchCoherent", "kernUpdatePos"}

\* the range tables kernIdentifyCellStartEnd builds from the current sorted
\* cell ids alone, starting from tables of sentinels
FreshTable ==
  identifyCellStartEnd(0, numObjects, dev_particleGridIndices,
                       [start |-> SentinelTable, end |-> SentinelTable])

\* C14: in a grid step the stages executed so far are always an initial part
\* of kernComputeIndices, sort, reset start, reset end,
\* kernIdentifyCellStartEnd, (coherent) kernReorderData, neighbour query,
\* kernUpdatePos, the stage about to run being the next of that order; and
\* the tokens and range tables the query reads are those of this step: the
\* sorted cell ids are the cells of the current positions and the tables hold
\* nothing but what this step's kernIdentifyCellStartEnd wrote.
C14_StageOrder ==
  GridStrategy =>
    LET order == GridOrder(strategy)
    IN /\ Len(stages) <= Len(order)
       /\ stages = SubSeq(order, 1, Len(stages))
       /\ InStage => (Len(stages) < Len(order) /\ pc = order[Len(stages) + 1])
       /\ pc \in {"swap", "memcpyPos", "memcpyVel"} => stages = order
       /\ QueryPending =>
            /\ \A k \in Agents :
                 dev_particleGridIndices[k] =
                   CellOf(dev_pos[dev_particleArrayIndices[k]])
            /\ dev_gridCellStartIndices = FreshTable.start
            /\ dev_gridCellEndIndices = FreshTable.end

\* the neighbour query of a second grid step, whose agents have left a cell
\* that was occupied in the first step
C14_Witness ==
  /\ QueryPending
  /\ steps >= 1
  /\ Len(stages) >= 5
  /\ \E c \in everOccupied : c \notin OccupiedCells

\* the last stage the current step has finished
LastStage == IF stages = << >> THEN "none" ELSE stages[Len(stages)]

\* some threads of the kernel of stage s have run and the others have not, or
\* all have run and the host is about to issue one of the stages after
Underway(s, after) ==
  \/ pc = s /\ done # {}
  \/ pc \in after /\ pc # s /\ done = {} /\ LastStage = s

\* the threads of the kernel of stage s that have run
Ran(s) == IF pc = s THEN done ELSE Agents

\* the tables after the threads of set D, taken in index order from index
\* on, have run kernIdentifyCellStartEnd on tables t
RECURSIVE identifySome(_, _, _, _, _)
identifySome(index, N, particleGridIndices, D, t) ==
  IF index >= N THEN t
  ELSE identifySome(index + 1, N, particleGridIndices, D,
         IF index \in D THEN identifyThread(index, N, particleGridIndices, t)
         ELSE t)

\* C15: on the sorted cell ids, in whatever order the threads of
\* kernIdentifyCellStartEnd run, no entry of start or end is written by two
\* threads, and the tables are those that the threads run so far produce in
\* index order; when all have run, the tables of the kernel run in one piece.
C15_OneWriter ==
  Underway("kernIdentifyCellStartEnd",
           {"kernReorderData", "kernUpdateVelNeighborSearchScattered"}) =>
    LET D == Ran("kernIdentifyCellStartEnd")
        t0 == [start |-> atLaunch.dev_gridCellStartIndices,
               end |-> atLaunch.dev_gridCellEndIndices]
        t == identifySome(0, numObjects, dev_particleGridIndices, D, t0)
    IN /\ \A a, b \in Agents : a < b =>
            dev_particleGridIndices[a] <= dev_particleGridIndices[b]
       /\ \A w1, w2 \in writers :
            (w1[1] = w2[1] /\ w1[2] = w2[2]) => w1[3] = w2[3]
       /\ dev_gridCellStartIndices = t.start
       /\ dev_gridCellEndIndices = t.end
       /\ D = Agents =>
            /\ t = identifyCellStartEnd(0, numObjects, dev_particleGridIndices, t0)
            /\ \A k \in Agents :
                 \E w \in writers : w[1] = "start" /\ w[2] = dev_particleGridIndices[k]

\* kernIdentifyCellStartEnd with the thread of the last sorted position
\* finished before the thread of the first, on cell ids with a shared cell
\* and a second cell
C15_Witness ==
  /\ pc = "kernIdentifyCellStartEnd"
  /\ (numObjects - 1) \in done
  /\ 0 \notin done
  /\ \E a, b \in Agents : a # b /\ dev_particleGridIndices[a] = dev_particleGridIndices[b]
  /\ \E a, b \in Agents : dev_particleGridIndices[a] # dev_particleGridIndices[b]
  /\ writers # {}

\* the per-agent stages and the stages the host may issue after each
PerAgentStages == {"kernComputeIndices", "kernReorderData",
                   "kernUpdateVelocityBruteForce",
                   "kernUpdateVelNeighborSearchScattered",
                   "kernUpdateVelNeighborSearchCoherent", "kernUpdatePos"}

StagesAfter(s) ==
  IF s = "kernComputeIndices" THEN {"sort_by_key"}
  ELSE IF s = "kernReorderData" THEN {"kernUpdateVelNeighborSearchCoherent"}
  ELSE IF s = "kernUpdatePos" THEN {"swap", "memcpyPos"}
  ELSE {"kernUpdatePos"}

\* the device buffers after the threads D of the kernel of stage s, each
\* working on the buffers L of launch time alone and storing into the slots
\* of its own index only
OwnSlots(s, L, D) ==
  LET own(old, new) == [i \in Agents |-> IF i \in D THEN new[i] ELSE old[i]]
  IN IF s = "kernComputeIndices"
     THEN [L EXCEPT
             !.dev_particleArrayIndices = own(@, [i \in Agents |-> i]),
             !.dev_particleGridIndices =
                own(@, [i \in Agents |-> computeGridIndex(gridSideCount,
                          gridMinimum, gridInverseCellWidth, L.dev_pos[i])])]
     ELSE IF s = "kernReorderData"
     THEN [L EXCEPT
             !.dev_pos_temp =
                own(@, [i \in Agents |->
                          reorderData(i, L.dev_pos, L.dev_particleArrayIndices)]),
             !.dev_vel1_temp =
                own(@, [i \in Agents |->
                          reorderData(i, L.dev_vel1, L.dev_particleArrayIndices)])]
     ELSE IF s = "kernUpdateVelocityBruteForce"
     THEN [L EXCEPT
             !.dev_vel2 =
                own(@, [i \in Agents |->
                          updateVelocityBruteForce(numObjects, i, L.dev_pos,
                                                   L.dev_vel1)])]
     ELSE IF s = "kernUpdateVelNeighborSearchScattered"
     THEN [L EXCEPT
             !.dev_vel2 =
                own(@, [i \in Agents |->
                          updateVelScattered(i, gridSideCount, gridMinimum,
                            gridInverseCellWidth, L.dev_gridCellStartIndices,
                            L.dev_gridCellEndIndices, L.dev_particleArrayIndices,
                            L.dev_pos, L.dev_vel1)])]
     ELSE IF s = "kernUpdateVelNeighborSearchCoherent"
     THEN [L EXCEPT
             !.dev_vel2 =
                own(@, [i \in Agents |->
                          updateVelCoherent(i, gridSideCount, gridMinimum,
                            gridInverseCellWidth, L.dev_gridCellStartIndices,
                            L.dev_gridCellEndIndices, L.dev_pos_temp,
                            L.dev_vel1_temp)])]
     ELSE IF strategy = "CoherentGrid"
     THEN [L EXCEPT
             !.dev_pos_temp =
                own(@, [i \in Agents |->
                          updatePos(dt, L.dev_pos_temp[i], L.dev_vel2[i])])]
     ELSE [L EXCEPT
             !.dev_pos =
                own(@, [i \in Agents |-> updatePos(dt, L.dev_pos[i], L.dev_vel2[i])])]

\* C16: in each per-agent stage, in whatever order its threads run, the
\* device buffers are at every moment the buffers of launch time with, for
\* each thread that has run, the slot of its own index replaced by the value
\* that thread computes from the buffers of launch time; so the buffers after
\* the stage do not depend on the order.
C16_OwnSlotOnly ==
  \A s \in PerAgentStages :
    Underway(s, StagesAfter(s)) => Snapshot = OwnSlots(s, atLaunch, Ran(s))

\* kernUpdatePos, which works in place, with the thread of the last agent
\* finished before the thread of the first and a position moved
C16_Witness ==
  /\ pc = "kernUpdatePos"
  /\ (numObjects - 1) \in done
  /\ 0 \notin done
  /\ \E i \in done : dev_pos[i] # atLaunch.dev_pos[i]
  /\ \E i, j \in Agents :
       i # j /\ Distance(dev_pos[i], dev_pos[j]) < maxRuleDistance

\* floor((a - m) * invCellWidth) clamped into [0, R-1]
FloorCellAxis(a, m) ==
  LET cells == ((a - m) * gridInverseCellWidth.num)
                 \div (Unit * gridInverseCellWidth.den)
  IN IF cells < 0 THEN 0
     ELSE IF cells > gridSideCount - 1 THEN gridSideCount - 1 ELSE cells

\* C17: kernComputeIndices leaves arrayIndex[i] = i and
\* cellId[i] = x + y*R + z*R*R with each axis coordinate the floor of
\* (position - gridMin) * invCellWidth clamped into [0, R-1], for positions
\* inside the grid, below gridMin and beyond the upper corner alike; so
\* cellId[i] lies in [0, R^3).
C17_ComputeIndices ==
  (pc = "sort_by_key" /\ stages = << "kernComputeIndices" >>) =>
    \A i \in Agents :
      LET x == FloorCellAxis(dev_pos[i].x, gridMinimum.x)
          y == FloorCellAxis(dev_pos[i].y, gridMinimum.y)
          z == FloorCellAxis(dev_pos[i].z, gridMinimum.z)
      IN /\ dev_particleArrayIndices[i] = i
         /\ dev_particleGridIndices[i] =
              x + y * gridSideCount + z * gridSideCount * gridSideCount
         /\ 0 <= dev_particleGridIndices[i]
         /\ dev_particleGridIndices[i] < gridSideCount * gridSideCount * gridSideCount

\* kernComputeIndices has run on an agent below gridMin by a fraction of a
\* cell on one axis and on an agent beyond the upper corner
C17_Witness ==
  /\ pc = "sort_by_key"
  /\ stages = << "kernComputeIndices" >>
  /\ \E i \in Agents :
       /\ dev_pos[i].x < gridMinimum.x
       /\ dev_pos[i].x > gridMinimum.x - gridCellWidth
  /\ \E i \in Agents :
       dev_pos[i].z >= gridMinimum.z + gridSideCount * gridCellWidth

\* C18: after the key sort of a grid step the cell ids are non-decreasing,
\* the array indices are a permutation of 0 .. N-1, and the cell id at every
\* sorted position k is the cell kernComputeIndices computed for agent
\* dev_particleArrayIndices[k].
C18_SortPostcondition ==
  pc = "resetStart" =>
    /\ \A a, b \in Agents :
         a < b => dev_particleGridIndices[a] <= dev_particleGridIndices[b]
    /\ \A a, b \in Agents :
         a # b => dev_particleArrayIndices[a] # dev_particleArrayIndices[b]
    /\ \A k \in Agents :
         /\ dev_particleArrayIndices[k] \in Agents
         /\ dev_particleGridIndices[k] = CellOf(dev_pos[dev_particleArrayIndices[k]])

\* a sort that moved an agent to another position, on keys with two agents
\* in one cell and a third in another
C18_Witness ==
  /\ pc = "resetStart"
  /\ \E k \in Agents : dev_particleArrayIndices[k] # k
  /\ \E a, b \in Agents :
       a # b /\ dev_particleGridIndices[a] = dev_particleGridIndices[b]
  /\ \E a, b \in Agents : dev_particleGridIndices[a] # dev_particleGridIndices[b]

\* the new velocity and position of every agent at the end of the grid step
\* under way when the key sort has the outcome p: the two resets,
\* kernIdentifyCellStartEnd, (coherent) kernReorderData, the neighbour query
\* and kernUpdatePos applied to the buffers the sort leaves
StepResult(p) ==
  LET keys == [k \in Agents |-> dev_particleGridIndices[p[k]]]
      ids == [k \in Agents |-> dev_particleArrayIndices[p[k]]]
      t == identifyCellStartEnd(0, numObjects, keys,
             [start |-> resetIntBuffer(gridCellCount, dev_gridCellStartIndices, -1),
              end |-> resetIntBuffer(gridCellCount, dev_gridCellEndIndices, -1)])
      posT == [k \in Agents |-> reorderData(k, dev_pos, ids)]
      velT == [k \in Agents |-> reorderData(k, dev_vel1, ids)]
      slotOf(a) == CHOOSE k \in Agents : ids[k] = a
      vel(a) == IF strategy = "CoherentGrid"
                THEN updateVelCoherent(slotOf(a), gridSideCount, gridMinimum,
                                       gridInverseCellWidth, t.start, t.end,
                                       posT, velT)
                ELSE updateVelScattered(a, gridSideCount, gridMinimum,
                                        gridInverseCellWidth, t.start, t.end,
                                        ids, dev_pos, dev_vel1)
  IN [a \in Agents |-> [vel |-> vel(a), pos |-> updatePos(dt, dev_pos[a], vel(a))]]

Together == [j \in Agents |-> Zero3]
Marked == [j \in Agents |-> Vec(100 ^ j, 0, 0)]

RECURSIVE MarkSum(_)
MarkSum(S) ==
  IF S = {} THEN 0
  ELSE LET j == CHOOSE e \in S : TRUE IN 100 ^ j + MarkSum(S \ {j})

\* the accumulator once for each member of S and for nobody else
CountsExactly(acc, S) ==
  /\ acc.perceived_velocity = Vec(MarkSum(S), 0, 0)
  /\ acc.rule1_neighbor_count = Cardinality(S)
  /\ acc.rule3_neighbor_count = Cardinality(S)

\* the tokens (places of the sorted arrays) lying in start[c]..end[c], end
\* included, of a cell the query of an agent at p visits
TokensVisited(p) ==
  {t \in Agents : \E c \in VisitedCells(p) :
     /\ dev_gridCellStartIndices[c] <= t
     /\ t <= dev_gridCellEndIndices[c]}

\* C20: no strategy counts an agent as its own neighbour; the brute-force
\* loop examines every other agent once, and a grid query examines exactly
\* once every other agent whose token lies in start[c]..end[c], end
\* included, of a cell it visits, and nobody else.
C20_ExaminedOnce ==
  /\ pc = "kernUpdateVelocityBruteForce" =>
       \A i \in Agents :
         CountsExactly(bruteForceLoop(0, numObjects, i, Together, Marked, NoNeighbors),
                       Agents \ {i})
  /\ pc = "kernUpdateVelNeighborSearchScattered" =>
       \A i \in Agents :
         CountsExactly(scatteredCells(1, neighborCells(gridSideCount, gridMinimum, gridInverseCellWidth, dev_pos[i]),
                                      i, dev_gridCellStartIndices, dev_gridCellEndIndices,
                                      dev_particleArrayIndices, Together, Marked, NoNeighbors),
                       {dev_particleArrayIndices[t] : t \in TokensVisited(dev_pos[i])} \ {i})
  /\ pc = "kernUpdateVelNeighborSearchCoherent" =>
       \A i \in Agents :
         CountsExactly(coherentCells(1, neighborCells(gridSideCount, gridMinimum, gridInverseCellWidth, dev_pos_temp[i]),
                                     i, dev_gridCellStartIndices, dev_gridCellEndIndices,
                                     Together, Marked, NoNeighbors),
                       TokensVisited(dev_pos_temp[i]) \ {i})

\* a coherent query about to run with a visited cell whose range holds the
\* querying slot and, at its end index, another one
C20_Witness ==
  /\ pc = "kernUpdateVelNeighborSearchCoherent"
  /\ \E i \in Agents : \E c \in VisitedCells(dev_pos_temp[i]) :
       /\ dev_gridCellStartIndices[c] <= i
       /\ i < dev_gridCellEndIndices[c]


\* initSimulation has returned and the run has not been terminated
Initialised == heap.calls >= 1 /\ pc \notin {"boot", "exit"}

\* the grid reaches from gridMinimum over gridSideCount cells on the axis
CoversAxis(lo) ==
  /\ lo <= -scene_scale
  /\ lo + gridSideCount * gridCellWidth >= scene_scale

\* C21: after any sequence of initSimulation calls, with or without
\* endSimulation in between, the grid covers [-scene_scale, scene_scale] on
\* every axis.
C21_GridCoversDomain ==
  Initialised =>
    /\ CoversAxis(gridMinimum.x)
    /\ CoversAxis(gridMinimum.y)
    /\ CoversAxis(gridMinimum.z)


\* a stepSimulation* call has returned and nothing was called since
StepCompleted == pc = "idle" /\ stages # << >>

\* the position agent a had when the step was entered
EntryPos(a) == atEntry.pos[CHOOSE s \in Agents : atEntry.owner[s] = a]

\* C22: when a step of any strategy has completed, dev_vel1 holds the
\* velocities that step computed, dev_pos the positions integrated with
\* them, and slot k of both holds the state of one and the same agent.
C22_NewestState ==
  StepCompleted =>
    /\ dev_vel1 = produced
    /\ owner.dev_vel1 = owner.dev_pos
    /\ \A a \in Agents : \E k \in Agents : owner.dev_pos[k] = a
    /\ \A k \in Agents :
         dev_pos[k] = updatePos(dt, EntryPos(owner.dev_pos[k]), dev_vel1[k])

\* a coherent step that moved the agents to other slots has completed, the
\* second of the run
C22_Witness ==
  /\ StepCompleted
  /\ steps >= 2
  /\ strategy = "CoherentGrid"
  /\ \E k \in Agents : owner.dev_pos[k] # atEntry.owner[k]
  /\ dev_pos # atEntry.pos

\* C23: when a step of any strategy has completed, slot i of dev_pos and of
\* dev_vel1 holds the state of the agent that was in slot i when the step
\* was entered.
C23_KeepsIndex ==
  StepCompleted =>
    /\ owner.dev_pos = atEntry.owner
    /\ owner.dev_vel1 = atEntry.owner


\* the cell coordinate the neighbour query computes on one axis for an agent
\* at coordinate a: (int)floorf((a - gridMin) * inverseCellWidth)
QueryCellAxis(a, lo) == axisRange(a - lo, gridInverseCellWidth).cell

\* the cell coordinate kernComputeIndices assigns on that axis
AssignedCellAxis(a, lo) ==
  clampCell(truncToInt(cellFraction(a - lo, gridInverseCellWidth)), gridSideCount)

\* C24: for every agent inside [-scene_scale, scene_scale] on each axis the
\* neighbour query computes the cell coordinates kernComputeIndices assigned
\* to it, so the agent's own cell is among the cells its query visits.
C24_QueryCellIsOwnCell ==
  QueryPending =>
    \A i \in Agents :
      InBounds(InputPos[i]) =>
        /\ QueryCellAxis(InputPos[i].x, gridMinimum.x) = AssignedCellAxis(InputPos[i].x, gridMinimum.x)
        /\ QueryCellAxis(InputPos[i].y, gridMinimum.y) = AssignedCellAxis(InputPos[i].y, gridMinimum.y)
        /\ QueryCellAxis(InputPos[i].z, gridMinimum.z) = AssignedCellAxis(InputPos[i].z, gridMinimum.z)
        /\ CellOf(InputPos[i]) \in VisitedCells(InputPos[i])



\* the buffers the kernel, sort or copy of stage s reads
ReadBy(s) ==
  CASE s = "kernUpdateVelocityBruteForce" -> {"dev_pos", "dev_vel1"}
    [] s = "kernComputeIndices" -> {"dev_pos"}
    [] s = "sort_by_key" -> {"dev_particleGridIndices", "dev_particleArrayIndices"}
    [] s = "kernIdentifyCellStartEnd" -> {"dev_particleGridIndices"}
    [] s = "kernReorderData" -> {"dev_pos", "dev_vel1", "dev_particleArrayIndices"}
    [] s = "kernUpdateVelNeighborSearchScattered" ->
         {"dev_gridCellStartIndices", "dev_gridCellEndIndices",
          "dev_particleArrayIndices", "dev_pos", "dev_vel1"}
    [] s = "kernUpdateVelNeighborSearchCoherent" ->
         {"dev_gridCellStartIndices", "dev_gridCellEndIndices",
          "dev_pos_temp", "dev_vel1_temp"}
    [] s = "kernUpdatePos" ->
         {IF strategy = "CoherentGrid" THEN "dev_pos_temp" ELSE "dev_pos", "dev_vel2"}
    [] s = "memcpyPos" -> {"dev_pos_temp"}
    [] s = "memcpyVel" -> {"dev_vel2"}
    [] OTHER -> {}

\* C25: every buffer the kernel about to run reads has been written since
\* it was allocated, by initSimulation or by an earlier stage or step; in
\* particular dev_vel1 when the first step after initSimulation reads it.
C25_ReadsInitialised ==
  \A b \in ReadBy(pc) : ptr[b] \in heap.written


\* the allocations the nine device pointers hold
Held == {ptr[b] : b \in Buffers}

\* C26: across any sequence of initSimulation, step and endSimulation calls
\* no allocation is freed twice, none is leaked (live with no pointer left
\* that holds it), the buffers stay allocated from initSimulation to
\* endSimulation, steps included, and endSimulation leaves nothing allocated.
C26_AllocatedOnceFreedOnce ==
  pc # "exit" =>
    /\ heap.refreed = {}
    /\ heap.live \subseteq Held
    /\ (Initialised /\ pc # "ended") => Held \subseteq heap.live
    /\ pc = "ended" => heap.live = {}


\* the coordinate the claim gives for the result r = p + v * dt
Wrapped(r) ==
  IF r > scene_scale THEN -scene_scale
  ELSE IF r < -scene_scale THEN scene_scale
  ELSE r

\* p + v * dt on each axis, before the wrap
Moved(p, v) == Vec(p.x + FMul(v.x, dt), p.y + FMul(v.y, dt), p.z + FMul(v.z, dt))

\* C27: kernUpdatePos stores, independently on each axis, p + v * dt, or
\* -scene_scale where that is above +scene_scale, or +scene_scale where that
\* is below -scene_scale, and leaves the velocity buffers as they were.
C27_UpdatePosWraps ==
  [][(pc = "kernUpdatePos" /\ pc' # pc) =>
       LET old == IF strategy = "CoherentGrid" THEN dev_pos_temp ELSE dev_pos
           new == IF strategy = "CoherentGrid" THEN dev_pos_temp' ELSE dev_pos'
       IN /\ \A k \in Agents :
               LET r == Moved(old[k], dev_vel2[k])
               IN new[k] = Vec(Wrapped(r.x), Wrapped(r.y), Wrapped(r.z))
          /\ dev_vel2' = dev_vel2
          /\ dev_vel1' = dev_vel1
          /\ dev_vel1_temp' = dev_vel1_temp]_vars

\* kernUpdatePos has run on agents of which one left the domain through the
\* upper bound of an axis, one through the lower bound of an axis, and one
\* coordinate that stayed inside was moved
C27_Witness ==
  /\ pc = "swap"
  /\ \E k \in Agents : LET r == Moved(atEntry.pos[k], dev_vel2[k])
                       IN r.x > scene_scale /\ dev_pos[k].x = -scene_scale
  /\ \E k \in Agents : LET r == Moved(atEntry.pos[k], dev_vel2[k])
                       IN \/ r.x < -scene_scale /\ dev_pos[k].x = scene_scale
                          \/ r.y < -scene_scale /\ dev_pos[k].y = scene_scale
                          \/ r.z < -scene_scale /\ dev_pos[k].z = scene_scale
  /\ \E k \in Agents : LET r == Moved(atEntry.pos[k], dev_vel2[k])
                       IN /\ r.y # atEntry.pos[k].y
                          /\ -scene_scale < r.y /\ r.y < scene_scale
                          /\ dev_pos[k].y = r.y

====
